---- MODULE Spec2Model ----
(***************************************************************************)
(* A model of the ethabi codec: the head/tail encoder, the decoder, the    *)
(* function call builder and the event log parser / topic filter builder.  *)
(* Bytes are naturals 0..255, a Word is a sequence of 32 bytes, and the    *)
(* pure functions of the library are operators computed as the code        *)
(* computes them.  Each specification draws the inputs of one group of     *)
(* operations from bounded sets and applies the operations to them.        *)
(***************************************************************************)
EXTENDS Integers, Sequences, FiniteSets, TLC

VARIABLES
    build,      \* the target the library is compiled for: pointer width, overflow checks
    pc,         \* the position of the caller: which operation ran last
    types,      \* the ParamType list handed to decode
    tokens,     \* the Token list handed to encode / encode_input
    data,       \* the byte string handed to decode (produced by encode in a round trip)
    function,   \* the Function interface: name, inputs
    other,      \* a second Function, AbiError or Event, compared with the first
    contract,   \* the Contract built by load, and the JSON it is built from
    event,      \* the Event interface: name, inputs, anonymous
    log,        \* the RawLog handed to parse_log
    raw,        \* the RawTopicFilter handed to create_filter
    result      \* what the last operation returned

vars == <<build, pc, types, tokens, data, function, other, contract, event, log, raw, result>>

(***************************************************************************)
(* Bounds of the model.                                                    *)
(***************************************************************************)
MaxArrayLen == 2      \* longest Array / FixedArray token and FixedArray type
MaxNesting == 2       \* deepest nesting of array types
MaxNodes == 7         \* most nodes in the token tree of one encode call
MaxDataWords == 3     \* longest byte string handed to decode, in words
MaxRepeat == 3        \* longest run of elements decoded without reading any byte
MaxTopics == 3        \* most topics in a RawLog after topic-0
MaxOneOf == 2         \* most tokens in a OneOf topic of a RawTopicFilter

(***************************************************************************)
(* Results.  Ok(v), Err(chain) and Panic(msg) are records with one field   *)
(* named after the outcome.  An error is the error_chain list of kinds,    *)
(* outermost first: chain_err pushes a Msg kind in front of its cause.     *)
(***************************************************************************)
Ok(v) == [Ok |-> v]
Err(kind) == [Err |-> <<kind>>]
Panic(msg) == [Panic |-> msg]
IsOk(r) == "Ok" \in DOMAIN r
IsErr(r) == "Err" \in DOMAIN r
IsPanic(r) == "Panic" \in DOMAIN r
ErrKind(r) == r.Err[1]
RootCause(r) == r.Err[Len(r.Err)]
chain_err(r) == IF IsErr(r) THEN [Err |-> <<"Msg">> \o r.Err] ELSE r
bail == [Err |-> <<"Msg">>]
None == [None |-> TRUE]

(***************************************************************************)
(* Bytes and words.                                                        *)
(***************************************************************************)
Fill(n, b) == [i \in 1..n |-> b]
Zeros(n) == Fill(n, 0)

pad_u32(value) ==
    Zeros(28) \o << (value \div 16777216) % 256, (value \div 65536) % 256,
                    (value \div 256) % 256, value % 256 >>

\* the bytes of every word, one word after the other
RECURSIVE Flatten(_)
Flatten(words) ==
    IF Len(words) = 0 THEN <<>>
    ELSE IF Len(words) = 1 THEN words[1] \o <<>>
    ELSE Flatten(SubSeq(words, 1, Len(words) \div 2))
            \o Flatten(SubSeq(words, (Len(words) \div 2) + 1, Len(words)))

(***************************************************************************)
(* usize arithmetic.  A usize is four 16-bit limbs, least significant      *)
(* first, so that values up to 2^64 - 1 are exact.  An addition overflows  *)
(* the pointer width of the target; a build with overflow checks panics    *)
(* there and a build without them wraps.                                   *)
(***************************************************************************)
LimbBase == 65536

USize(n) == << n % LimbBase, (n \div LimbBase) % LimbBase, 0, 0 >>

UAddRaw(a, b) ==
    LET s1 == a[1] + b[1]
        s2 == a[2] + b[2] + s1 \div LimbBase
        s3 == a[3] + b[3] + s2 \div LimbBase
        s4 == a[4] + b[4] + s3 \div LimbBase
    IN  << s1 % LimbBase, s2 % LimbBase, s3 % LimbBase, s4 % LimbBase, s4 \div LimbBase >>

UOverflows(s, bits) ==
    IF bits = 32 THEN s[3] # 0 \/ s[4] # 0 \/ s[5] # 0 ELSE s[5] # 0

UWrap(s, bits) ==
    IF bits = 32 THEN << s[1], s[2], 0, 0 >> ELSE << s[1], s[2], s[3], s[4] >>

ULess(a, b) ==
    \/ a[4] < b[4]
    \/ a[4] = b[4] /\ a[3] < b[3]
    \/ a[4] = b[4] /\ a[3] = b[3] /\ a[2] < b[2]
    \/ a[4] = b[4] /\ a[3] = b[3] /\ a[2] = b[2] /\ a[1] < b[1]

\* the value as an integer; used only on values known to be at most a buffer length
UToInt(a) == a[1] + LimbBase * a[2]

\* offset + len as the build computes it
UAdd(bld, a, b) ==
    LET s == UAddRaw(a, b)
    IN  IF UOverflows(s, bld.bits)
        THEN IF bld.checks THEN Panic("attempt to add with overflow")
             ELSE Ok(UWrap(s, bld.bits))
        ELSE Ok(UWrap(s, bld.bits))

(***************************************************************************)
(* ParamType.                                                              *)
(***************************************************************************)
PAddress == [k |-> "Address"]
PBytes == [k |-> "Bytes"]
PInt(n) == [k |-> "Int", n |-> n]
PUint(n) == [k |-> "Uint", n |-> n]
PBool == [k |-> "Bool"]
PString == [k |-> "String"]
PArray(t) == [k |-> "Array", t |-> t]
PFixedBytes(n) == [k |-> "FixedBytes", n |-> n]
PFixedArray(t, n) == [k |-> "FixedArray", t |-> t, n |-> n]
PTuple(fields) == [k |-> "Tuple", fields |-> fields]

is_empty_bytes_valid_encoding(t) ==
    CASE t.k = "FixedBytes" -> t.n = 0
      [] t.k = "FixedArray" -> t.n = 0
      [] OTHER -> FALSE

\* the classification of a type: Bytes, String, Array, and FixedArray of a dynamic element
RECURSIVE TypeIsDynamic(_)
TypeIsDynamic(t) ==
    CASE t.k \in {"Bytes", "String", "Array"} -> TRUE
      [] t.k = "FixedArray" -> TypeIsDynamic(t.t)
      [] OTHER -> FALSE

(***************************************************************************)
(* Token.  A token is a record with one field, named after its variant.    *)
(***************************************************************************)
TAddress(a) == [Address |-> a]
TFixedBytes(b) == [FixedBytes |-> b]
TBytes(b) == [Bytes |-> b]
TInt(w) == [Int |-> w]
TUint(w) == [Uint |-> w]
TBool(b) == [Bool |-> b]
TString(s) == [String |-> s]
TFixedArray(ts) == [FixedArray |-> ts]
TArray(ts) == [Array |-> ts]
TTuple(ts) == [Tuple |-> ts]

Variant(token) == CHOOSE k \in DOMAIN token : TRUE

RECURSIVE is_dynamic(_)
is_dynamic(token) ==
    LET k == Variant(token)
    IN  CASE k \in {"Bytes", "String", "Array"} -> TRUE
          [] k = "FixedArray" ->
                \E i \in 1..Len(token.FixedArray) : is_dynamic(token.FixedArray[i])
          [] OTHER -> FALSE

RECURSIVE type_check(_, _)
type_check(token, t) ==
    LET k == Variant(token)
    IN  CASE k = "Address" -> t.k = "Address"
          [] k = "Bytes" -> t.k = "Bytes"
          [] k = "Int" -> t.k = "Int"
          [] k = "Uint" -> t.k = "Uint"
          [] k = "Bool" -> t.k = "Bool"
          [] k = "String" -> t.k = "String"
          [] k = "FixedBytes" -> t.k = "FixedBytes" /\ Len(token.FixedBytes) = t.n
          [] k = "Array" ->
                /\ t.k = "Array"
                /\ \A i \in 1..Len(token.Array) : type_check(token.Array[i], t.t)
          [] k = "FixedArray" ->
                /\ t.k = "FixedArray"
                /\ Len(token.FixedArray) = t.n
                /\ \A i \in 1..Len(token.FixedArray) : type_check(token.FixedArray[i], t.t)
          [] k = "Tuple" ->
                /\ t.k = "Tuple"
                /\ Len(token.Tuple) = Len(t.fields)
                /\ \A i \in 1..Len(token.Tuple) : type_check(token.Tuple[i], t.fields[i])

\* zip(tokens).all(..) without the comparison of the lengths
types_check_zip(toks, param_types) ==
    \A i \in 1..(IF Len(toks) <= Len(param_types) THEN Len(toks) ELSE Len(param_types)) :
        type_check(toks[i], param_types[i])

types_check(toks, param_types) ==
    /\ Len(param_types) = Len(toks)
    /\ \A i \in 1..Len(toks) : type_check(toks[i], param_types[i])

(***************************************************************************)
(* Encoder.                                                                *)
(***************************************************************************)
\* the words of the bytes with the last word left as short as its bytes
pad_fixed_bytes_unpadded(bytes) ==
    [w \in 1..((Len(bytes) + 31) \div 32) |->
        SubSeq(bytes, 32 * (w - 1) + 1, IF 32 * w < Len(bytes) THEN 32 * w ELSE Len(bytes))]

pad_fixed_bytes(bytes) ==
    LET len == (Len(bytes) + 31) \div 32
        to_copy(i) == IF i = len - 1
                      THEN (IF Len(bytes) % 32 = 0 THEN 32 ELSE Len(bytes) % 32)
                      ELSE 32
    IN  [w \in 1..len |->
            LET i == w - 1
                offset == 32 * i
            IN  SubSeq(bytes, offset + 1, offset + to_copy(i)) \o Zeros(32 - to_copy(i))]

pad_bytes(bytes) == <<pad_u32(Len(bytes))>> \o pad_fixed_bytes(bytes)

MRaw(words) == [Raw |-> words]
MPrefixed(words) == [Prefixed |-> words]
MPrefixedArray(mediates) == [PrefixedArray |-> mediates]
MPrefixedArrayWithLength(mediates) == [PrefixedArrayWithLength |-> mediates]

\* one word for the head of every mediate, Raw included
head_len_one_word(m) == 32

head_len(m) ==
    IF Variant(m) = "Raw" THEN 32 * Len(m.Raw) ELSE 32

RECURSIVE tail_len(_)
RECURSIVE SumLens(_)
SumLens(mediates) ==
    IF mediates = <<>> THEN 0
    ELSE head_len(Head(mediates)) + tail_len(Head(mediates)) + SumLens(Tail(mediates))

tail_len(m) ==
    LET k == Variant(m)
    IN  CASE k = "Raw" -> 0
          [] k = "Prefixed" -> Len(m.Prefixed) * 32
          [] k = "PrefixedArray" -> SumLens(m.PrefixedArray)
          [] k = "PrefixedArrayWithLength" -> 32 + SumLens(m.PrefixedArrayWithLength)

\* an offset word for every mediate, Raw included
head_always_offset(m, suffix_offset) == <<pad_u32(suffix_offset)>>

head(m, suffix_offset) ==
    IF Variant(m) = "Raw" THEN m.Raw ELSE <<pad_u32(suffix_offset)>>

RECURSIVE HeadsLen(_)
HeadsLen(mediates) ==
    IF mediates = <<>> THEN 0 ELSE head_len(Head(mediates)) + HeadsLen(Tail(mediates))

\* the first fold of encode_head_tail: the heads, each given the running offset
RECURSIVE Heads(_, _)
Heads(mediates, offset) ==
    IF mediates = <<>> THEN <<>>
    ELSE head(Head(mediates), offset)
            \o Heads(Tail(mediates), offset + tail_len(Head(mediates)))

RECURSIVE encode_head_tail(_)
RECURSIVE tail(_)
RECURSIVE Tails(_)
Tails(mediates) ==
    IF mediates = <<>> THEN <<>> ELSE tail(Head(mediates)) \o Tails(Tail(mediates))

tail(m) ==
    LET k == Variant(m)
    IN  CASE k = "Raw" -> <<>>
          [] k = "Prefixed" -> m.Prefixed
          [] k = "PrefixedArray" -> encode_head_tail(m.PrefixedArray)
          [] k = "PrefixedArrayWithLength" ->
                <<pad_u32(Len(m.PrefixedArrayWithLength))>>
                    \o encode_head_tail(m.PrefixedArrayWithLength)

encode_head_tail(mediates) ==
    Heads(mediates, HeadsLen(mediates)) \o Tails(mediates)

RECURSIVE encode_token(_)
encode_token(token) ==
    LET k == Variant(token)
    IN  CASE k = "Address" -> MRaw(<<Zeros(12) \o token.Address>>)
          [] k = "Bytes" -> MPrefixed(pad_bytes(token.Bytes))
          [] k = "String" -> MPrefixed(pad_bytes(token.String))
          [] k = "FixedBytes" -> MRaw(pad_fixed_bytes(token.FixedBytes))
          [] k = "Int" -> MRaw(<<token.Int>>)
          [] k = "Uint" -> MRaw(<<token.Uint>>)
          [] k = "Bool" -> MRaw(<<Zeros(31) \o <<IF token.Bool THEN 1 ELSE 0>> >>)
          [] k = "Array" ->
                MPrefixedArrayWithLength(
                    [i \in 1..Len(token.Array) |-> encode_token(token.Array[i])])
          [] k = "FixedArray" ->
                LET mediates == [i \in 1..Len(token.FixedArray) |->
                                    encode_token(token.FixedArray[i])]
                IN  IF is_dynamic(token) THEN MPrefixedArray(mediates)
                    ELSE MRaw(encode_head_tail(mediates))

encode(toks) ==
    Flatten(encode_head_tail([i \in 1..Len(toks) |-> encode_token(toks[i])]))

(***************************************************************************)
(* Decoder.  Offsets and lengths are usize values; every outcome of a      *)
(* helper is Ok, Err or Panic and a caller passes on what is not Ok, as    *)
(* the ? operator does.                                                    *)
(***************************************************************************)
as_usize(slice) ==
    IF \E i \in 1..28 : slice[i] # 0
    THEN Err("InvalidData")
    ELSE Ok(<< slice[31] * 256 + slice[32], slice[29] * 256 + slice[30], 0, 0 >>)

as_bool(slice) ==
    IF \E i \in 1..31 : slice[i] # 0
    THEN Err("InvalidData")
    ELSE Ok(slice[32] = 1)

\* &data[offset..end]: the slice expression panics when the range is not inside data
Slice(bytes, offset, end) ==
    IF ULess(end, offset)
    THEN Panic("slice index starts after its end")
    ELSE IF ULess(USize(Len(bytes)), end)
    THEN Panic("range end index out of range for slice")
    ELSE Ok(SubSeq(bytes, UToInt(offset) + 1, UToInt(end)))

\* if offset + len > data.len() { Err(InvalidData) } else { Ok(&data[offset..(offset + len)]) }
\* with sum the outcome of computing offset + len
CheckedSlice(bytes, offset, sum) ==
    IF ~IsOk(sum) THEN sum
    ELSE IF ULess(USize(Len(bytes)), sum.Ok) THEN Err("InvalidData")
    ELSE Slice(bytes, offset, sum.Ok)

peek(bld, bytes, offset, len) == CheckedSlice(bytes, offset, UAdd(bld, offset, len))

peek_32_bytes(bld, bytes, offset) == peek(bld, bytes, offset, USize(32))

take_bytes(bld, bytes, offset, len) == CheckedSlice(bytes, offset, UAdd(bld, offset, len))

\* String::from_utf8: the well-formed byte sequences of UTF-8.  A byte that is
\* not a continuation byte starts a character; the character's length and the
\* range of its second byte follow from that first byte.
Utf8Cont(x) == x >= 128 /\ x <= 191

Utf8Width(x) ==
    IF x < 128 THEN 1
    ELSE IF x >= 194 /\ x <= 223 THEN 2
    ELSE IF x >= 224 /\ x <= 239 THEN 3
    ELSE IF x >= 240 /\ x <= 244 THEN 4
    ELSE 0

Utf8Second(x, y) ==
    IF x = 224 THEN y >= 160 /\ y <= 191
    ELSE IF x = 237 THEN y >= 128 /\ y <= 159
    ELSE IF x = 240 THEN y >= 144 /\ y <= 191
    ELSE IF x = 244 THEN y >= 128 /\ y <= 143
    ELSE Utf8Cont(y)

Utf8Valid(b) ==
    /\ Len(b) > 0 => ~Utf8Cont(b[1])
    /\ \A i \in 1..Len(b) :
          Utf8Cont(b[i])
          \/ /\ Utf8Width(b[i]) > 0
             /\ i + Utf8Width(b[i]) - 1 <= Len(b)
             /\ Utf8Width(b[i]) > 1 => Utf8Second(b[i], b[i + 1])
             /\ \A j \in (i + 2)..(i + Utf8Width(b[i]) - 1) : Utf8Cont(b[j])
             /\ i + Utf8Width(b[i]) <= Len(b) => ~Utf8Cont(b[i + Utf8Width(b[i])])

from_utf8(bytes) == IF Utf8Valid(bytes) THEN Ok(bytes) ELSE Err("Utf8")

DecodeResult(token, new_offset) == [token |-> token, new_offset |-> new_offset]

\* the ? operator in front of a call: the call is made on an Ok value only
TryUsize(r) == IF IsOk(r) THEN as_usize(r.Ok) ELSE r
TryBool(r) == IF IsOk(r) THEN as_bool(r.Ok) ELSE r
TryPeek32(bld, bytes, r) == IF IsOk(r) THEN peek_32_bytes(bld, bytes, r.Ok) ELSE r
TryTake(bld, bytes, start, len) ==
    IF IsOk(start) THEN take_bytes(bld, bytes, start.Ok, len) ELSE start
TryFromUtf8(r) == IF IsOk(r) THEN from_utf8(r.Ok) ELSE r

\* DecodeResult { token, new_offset: offset + 32 }, token built from an Ok value
Advance(bld, offset, token) ==
    LET next == UAdd(bld, offset, USize(32))
    IN  IF IsOk(next) THEN Ok(DecodeResult(token, next.Ok)) ELSE next

AdvanceWith(bld, offset, r, variant) ==
    IF IsOk(r) THEN Advance(bld, offset, [x \in {variant} |-> r.Ok]) ELSE r

\* let dynamic_offset = as_usize(&peek_32_bytes(data, offset)?)?;
DynamicOffset(bld, bytes, offset) == TryUsize(peek_32_bytes(bld, bytes, offset))

\* let len = as_usize(&peek_32_bytes(data, dynamic_offset)?)?;
DynamicLen(bld, bytes, dynamic_offset) == TryUsize(TryPeek32(bld, bytes, dynamic_offset))

\* dynamic_offset + 32, once dynamic_offset and len are read
AfterLen(bld, dynamic_offset, len) ==
    IF IsOk(len) THEN UAdd(bld, dynamic_offset.Ok, USize(32)) ELSE len

\* take_bytes(data, dynamic_offset + 32, len)?
DynamicPayload(bld, bytes, dynamic_offset, len) ==
    IF IsOk(len)
    THEN TryTake(bld, bytes, AfterLen(bld, dynamic_offset, len), len.Ok)
    ELSE len

DecodeBytesAt(bld, bytes, dynamic_offset) ==
    DynamicPayload(bld, bytes, dynamic_offset, DynamicLen(bld, bytes, dynamic_offset))

\* a type whose decoding reads no byte and leaves the offset where it was
RECURSIVE ReadsNothing(_)
ReadsNothing(t) == t.k = "FixedArray" /\ (t.n = 0 \/ ReadsNothing(t.t))

\* the outcome of a loop that pushes len tokens, len beyond the bound of the model,
\* without reading a byte of the input
Unbounded(len) == [Unbounded |-> len]

RECURSIVE decode_param(_, _, _, _)
RECURSIVE DecodeElements(_, _, _, _, _, _, _)
RECURSIVE DecodeNext(_, _, _, _, _, _, _)

\* for _ in 0..len { let res = decode_param(t, data, new_offset)?; ... }
DecodeElements(bld, t, bytes, new_offset, i, len, toks) ==
    IF ~ULess(USize(i), len)
    THEN Ok([tokens |-> toks, new_offset |-> new_offset])
    ELSE IF ReadsNothing(t) /\ ULess(USize(MaxRepeat), len)
    THEN Unbounded(len)
    ELSE DecodeNext(bld, t, bytes, i, len, toks, decode_param(bld, t, bytes, new_offset))

\* new_offset = res.new_offset; tokens.push(res.token);
DecodeNext(bld, t, bytes, i, len, toks, res) ==
    IF IsOk(res)
    THEN DecodeElements(bld, t, bytes, res.Ok.new_offset, i + 1, len,
                        Append(toks, res.Ok.token))
    ELSE res

\* the elements of an Array, from dynamic_offset + 32
ArrayElements(bld, t, bytes, start, len) ==
    IF IsOk(start)
    THEN DecodeElements(bld, t, bytes, start.Ok, 0, len.Ok, <<>>)
    ELSE start

DecodeArrayAt(bld, t, bytes, dynamic_offset, len) ==
    ArrayElements(bld, t, bytes, AfterLen(bld, dynamic_offset, len), len)

ArrayResult(bld, offset, elems) ==
    IF IsOk(elems) THEN Advance(bld, offset, TArray(elems.Ok.tokens)) ELSE elems

FixedArrayResult(elems) ==
    IF IsOk(elems)
    THEN Ok(DecodeResult(TFixedArray(elems.Ok.tokens), elems.Ok.new_offset))
    ELSE elems

\* the part of an Address word that is the address
AddressOf(slice) == IF IsOk(slice) THEN Ok(SubSeq(slice.Ok, 13, 32)) ELSE slice

decode_param(bld, param, bytes, offset) ==
    CASE param.k = "Address" ->
            AdvanceWith(bld, offset, AddressOf(peek_32_bytes(bld, bytes, offset)), "Address")
      [] param.k = "Int" ->
            AdvanceWith(bld, offset, peek_32_bytes(bld, bytes, offset), "Int")
      [] param.k = "Uint" ->
            AdvanceWith(bld, offset, peek_32_bytes(bld, bytes, offset), "Uint")
      [] param.k = "Bool" ->
            AdvanceWith(bld, offset, TryBool(peek_32_bytes(bld, bytes, offset)), "Bool")
      [] param.k = "FixedBytes" ->
            AdvanceWith(bld, offset, take_bytes(bld, bytes, offset, USize(param.n)),
                        "FixedBytes")
      [] param.k = "Bytes" ->
            AdvanceWith(bld, offset,
                        DecodeBytesAt(bld, bytes, DynamicOffset(bld, bytes, offset)),
                        "Bytes")
      [] param.k = "String" ->
            AdvanceWith(bld, offset,
                        TryFromUtf8(DecodeBytesAt(bld, bytes,
                                                  DynamicOffset(bld, bytes, offset))),
                        "String")
      [] param.k = "Array" ->
            ArrayResult(bld, offset,
                        DecodeArrayAt(bld, param.t, bytes,
                                      DynamicOffset(bld, bytes, offset),
                                      DynamicLen(bld, bytes,
                                                 DynamicOffset(bld, bytes, offset))))
      [] param.k = "FixedArray" ->
            FixedArrayResult(DecodeElements(bld, param.t, bytes, offset, 0,
                                            USize(param.n), <<>>))

\* for param in types { let res = decode_param(param, data, offset).chain_err(..)?; ... }
RECURSIVE DecodeParams(_, _, _, _, _)
RECURSIVE DecodeParamsNext(_, _, _, _, _)
DecodeParams(bld, param_types, bytes, offset, toks) ==
    IF param_types = <<>> THEN Ok(toks)
    ELSE DecodeParamsNext(bld, param_types, bytes, toks,
                          chain_err(decode_param(bld, Head(param_types), bytes, offset)))

DecodeParamsNext(bld, param_types, bytes, toks, res) ==
    IF IsOk(res)
    THEN DecodeParams(bld, Tail(param_types), bytes, res.Ok.new_offset,
                      Append(toks, res.Ok.token))
    ELSE res

decode(bld, param_types, bytes) ==
    IF ~(\A i \in 1..Len(param_types) : is_empty_bytes_valid_encoding(param_types[i]))
       /\ bytes = <<>>
    THEN bail
    ELSE DecodeParams(bld, param_types, bytes, USize(0), <<>>)

(***************************************************************************)
(* The inputs: the targets, the types and the tokens of each type.         *)
(***************************************************************************)
Builds == [bits : {32, 64}, checks : BOOLEAN]

ScalarTypes ==
    { PAddress, PBytes, PInt(256), PUint(256), PBool, PString,
      PFixedBytes(0), PFixedBytes(2), PFixedBytes(32) }

RECURSIVE TypesOver(_, _)
TypesOver(base, depth) ==
    IF depth = 0 THEN base
    ELSE LET inner == TypesOver(base, depth - 1)
         IN  inner \cup { PArray(t) : t \in inner }
                   \cup { PFixedArray(t, n) : t \in inner, n \in 0..MaxArrayLen }

AllTypes == TypesOver(ScalarTypes, MaxNesting)

\* the types that appear side by side in a list of two
ListTypes == TypesOver({PBool, PBytes, PFixedBytes(0)}, MaxNesting - 1)

TypeLists ==
    {<<>>} \cup { <<t>> : t \in AllTypes } \cup { <<t1, t2>> : t1, t2 \in ListTypes }

Address1 == Fill(20, 17)
Word1 == Fill(32, 17)
Foo == <<102, 111, 111>>

RECURSIVE Nodes(_)
RECURSIVE NodesOfList(_)
NodesOfList(toks) ==
    IF toks = <<>> THEN 0 ELSE Nodes(Head(toks)) + NodesOfList(Tail(toks))
Nodes(token) ==
    LET k == Variant(token)
    IN  CASE k = "Array" -> 1 + NodesOfList(token.Array)
          [] k = "FixedArray" -> 1 + NodesOfList(token.FixedArray)
          [] OTHER -> 1

\* the tokens that type-check against t and have at most budget nodes
RECURSIVE TokensOf(_, _)
RECURSIVE TokenSeqs(_, _, _, _)
\* the sequences of minlen..maxlen tokens of type t with at most budget nodes in all
TokenSeqs(t, minlen, maxlen, budget) ==
    (IF minlen <= 0 THEN {<<>>} ELSE {})
    \cup (IF maxlen = 0 \/ budget <= 0 THEN {}
          ELSE UNION { { <<x>> \o rest :
                            rest \in TokenSeqs(t, minlen - 1, maxlen - 1, budget - Nodes(x)) }
                       : x \in TokensOf(t, budget) })

TokensOf(t, budget) ==
    IF budget <= 0 THEN {}
    ELSE CASE t.k = "Address" -> { TAddress(Address1) }
           [] t.k = "Int" -> { TInt(Word1) }
           [] t.k = "Uint" -> { TUint(pad_u32(69)) }
           [] t.k = "Bool" -> { TBool(TRUE), TBool(FALSE) }
           [] t.k = "Bytes" -> { TBytes(<<>>), TBytes(<<18, 52>>) }
           [] t.k = "String" -> { TString(Foo) }
           [] t.k = "FixedBytes" -> { TFixedBytes(Fill(t.n, 18)) }
           [] t.k = "Array" ->
                { TArray(ts) : ts \in TokenSeqs(t.t, 0, MaxArrayLen, budget - 1) }
           [] t.k = "FixedArray" ->
                { TFixedArray(ts) : ts \in TokenSeqs(t.t, t.n, t.n, budget - 1) }

RECURSIVE TokenLists(_, _)
TokenLists(param_types, budget) ==
    IF param_types = <<>> THEN {<<>>}
    ELSE UNION { { <<x>> \o rest :
                      rest \in TokenLists(Tail(param_types), budget - Nodes(x)) }
                 : x \in TokensOf(Head(param_types), budget) }

(***************************************************************************)
(* The codec round trip: encode(tokens), then decode(types, bytes).        *)
(***************************************************************************)
Init ==
    /\ build \in Builds
    /\ types \in TypeLists
    /\ tokens \in TokenLists(types, MaxNodes)
    /\ data = <<>>
    /\ pc = "start"
    /\ result = None
    /\ function = None
    /\ other = None
    /\ contract = None
    /\ event = None
    /\ log = None
    /\ raw = None

Encode ==
    /\ pc = "start"
    /\ data' = encode(tokens)
    /\ pc' = "encoded"
    /\ UNCHANGED <<build, types, tokens, function, other, contract, event, log, raw, result>>

Decode ==
    /\ pc = "encoded"
    /\ result' = decode(build, types, data)
    /\ pc' = "decoded"
    /\ UNCHANGED <<build, types, tokens, data, function, other, contract, event, log, raw>>

Next == Encode \/ Decode

Spec == Init /\ [][Next]_vars

\* C1: for tokens that type-check against types, decode(types, encode(tokens))
\* succeeds and returns exactly tokens.
RoundTrip ==
    (pc = "decoded" /\ types_check(tokens, types)) => result = Ok(tokens)

(***************************************************************************)
(* Decoding a byte string that did not come from the encoder.              *)
(***************************************************************************)
\* a word that as_usize reads as 2^32 - 1
BigWord == Zeros(28) \o <<255, 255, 255, 255>>

DataWords == { pad_u32(0), pad_u32(1), pad_u32(32), pad_u32(64), BigWord, Word1 }

RECURSIVE WordSeqs(_)
WordSeqs(n) ==
    IF n = 0 THEN {<<>>}
    ELSE WordSeqs(n - 1)
         \cup { <<w>> \o ws : w \in DataWords, ws \in { x \in WordSeqs(n - 1) : Len(x) = n - 1 } }

\* whole words, and the same with the last byte missing
ByteStrings ==
    { Flatten(ws) : ws \in WordSeqs(MaxDataWords) }
    \cup { SubSeq(Flatten(ws), 1, 32 * Len(ws) - 1) : ws \in WordSeqs(MaxDataWords) \ {<<>>} }

EmptyValidTypes == { PFixedBytes(0), PFixedArray(PBool, 0) }

DecodeTypeLists ==
    {<<>>}
    \cup { <<t>> : t \in TypesOver(ScalarTypes, 1) }
    \cup { <<t1, t2>> : t1, t2 \in {PBool, PBytes} \cup EmptyValidTypes }

InitDecode ==
    /\ build \in Builds
    /\ types \in DecodeTypeLists
    /\ data \in ByteStrings
    /\ tokens = <<>>
    /\ pc = "received"
    /\ result = None
    /\ function = None
    /\ other = None
    /\ contract = None
    /\ event = None
    /\ log = None
    /\ raw = None

DecodeBytes ==
    /\ pc = "received"
    /\ result' = decode(build, types, data)
    /\ pc' = "decoded"
    /\ UNCHANGED <<build, types, tokens, data, function, other, contract, event, log, raw>>

NextDecode == DecodeBytes

SpecDecode == InitDecode /\ [][NextDecode]_vars

\* C2: whatever the types and the bytes, decode returns Ok or Err and never
\* panics, and an Err that comes from a read out of range is InvalidData.
DecodeNeverPanics ==
    pc = "decoded" => /\ ~IsPanic(result)
                      /\ IsErr(result) => RootCause(result) \in {"InvalidData", "Utf8", "Msg"}

\* C3: decode of the empty byte string succeeds exactly when every type is
\* FixedBytes(0) or FixedArray(_, 0), and fails with InvalidData otherwise.
EmptyInputPolicy ==
    (pc = "decoded" /\ data = <<>>) =>
        IF \A i \in 1..Len(types) : is_empty_bytes_valid_encoding(types[i])
        THEN IsOk(result)
        ELSE IsErr(result) /\ \E i \in 1..Len(result.Err) : result.Err[i] = "InvalidData"

(***************************************************************************)
(* Signatures.  Text is a sequence of ASCII codes.  keccak256 is outside   *)
(* the library; the model uses a fixed function from byte strings to 32    *)
(* bytes in its place, which depends on every byte and on the length.      *)
(***************************************************************************)
RECURSIVE WeightedSum(_, _, _)
WeightedSum(bytes, lo, hi) ==
    IF lo > hi THEN 0
    ELSE IF lo = hi THEN (bytes[lo] + 1) * (lo + 2)
    ELSE (WeightedSum(bytes, lo, (lo + hi) \div 2)
          + WeightedSum(bytes, ((lo + hi) \div 2) + 1, hi)) % 65521

HashOf(sum, len) == [i \in 1..32 |-> (sum * i + 31 * len + 7 * i) % 256]

keccak256(bytes) == HashOf(WeightedSum(bytes, 1, Len(bytes)), Len(bytes))

RECURSIVE Decimal(_)
Decimal(n) == IF n < 10 THEN <<48 + n>> ELSE Decimal(n \div 10) \o <<48 + (n % 10)>>

\* Writer::write: the canonical text of a type
RECURSIVE write(_)
RECURSIVE JoinTypes(_)
write(param) ==
    CASE param.k = "Address" -> <<97, 100, 100, 114, 101, 115, 115>>
      [] param.k = "Bytes" -> <<98, 121, 116, 101, 115>>
      [] param.k = "FixedBytes" -> <<98, 121, 116, 101, 115>> \o Decimal(param.n)
      [] param.k = "Int" -> <<105, 110, 116>> \o Decimal(param.n)
      [] param.k = "Uint" -> <<117, 105, 110, 116>> \o Decimal(param.n)
      [] param.k = "Bool" -> <<98, 111, 111, 108>>
      [] param.k = "String" -> <<115, 116, 114, 105, 110, 103>>
      [] param.k = "Array" -> write(param.t) \o <<91, 93>>
      [] param.k = "FixedArray" -> write(param.t) \o <<91>> \o Decimal(param.n) \o <<93>>
      [] param.k = "Tuple" -> <<40>> \o JoinTypes(param.fields) \o <<41>>

\* the types joined by ","
JoinTypes(params) ==
    IF params = <<>> THEN <<>>
    ELSE IF Len(params) = 1 THEN write(params[1])
    ELSE write(params[1]) \o <<44>> \o JoinTypes(Tail(params))

\* name(T1,T2,...)
SignatureText(name, params) == name \o <<40>> \o JoinTypes(params) \o <<41>>

long_signature(name, params) == keccak256(SignatureText(name, params))

short_signature(name, params) == SubSeq(long_signature(name, params), 1, 4)

(***************************************************************************)
(* Function: the call builder.                                             *)
(***************************************************************************)
Param(name, kind) == [name |-> name, kind |-> kind]

input_param_types(fn) == [i \in 1..Len(fn.inputs) |-> fn.inputs[i].kind]

encode_input_unchecked(fn, toks) ==
    Ok(short_signature(fn.name, input_param_types(fn)) \o encode(toks))

encode_input(fn, toks) ==
    IF ~types_check(toks, input_param_types(fn))
    THEN Err("InvalidData")
    ELSE Ok(short_signature(fn.name, input_param_types(fn)) \o encode(toks))

Bar == <<98, 97, 114>>
Names == { Foo, Bar }

\* the types of the inputs of the functions of the model
InputTypes == { PAddress, PBool, PBytes, PArray(PBool), PFixedArray(PBool, MaxArrayLen) }

InputTypeLists ==
    {<<>>} \cup { <<t>> : t \in InputTypes } \cup { <<t1, t2>> : t1, t2 \in InputTypes }

Functions ==
    { [name |-> n, inputs |-> [i \in 1..Len(ts) |-> Param(Decimal(i), ts[i])]] :
        n \in Names, ts \in InputTypeLists }

\* the token lists a caller may pass, whatever the function
CallTokens == UNION { TokenLists(ts, MaxNodes) : ts \in InputTypeLists }

InitFunction ==
    /\ build = [bits |-> 64, checks |-> FALSE]
    /\ function \in Functions
    /\ other = None
    /\ contract = None
    /\ tokens \in CallTokens
    /\ types = <<>>
    /\ data = <<>>
    /\ pc = "call"
    /\ result = None
    /\ event = None
    /\ log = None
    /\ raw = None

EncodeInput ==
    /\ pc = "call"
    /\ result' = encode_input(function, tokens)
    /\ pc' = "called"
    /\ UNCHANGED <<build, types, tokens, data, function, other, contract, event, log, raw>>

NextFunction == EncodeInput

SpecFunction == InitFunction /\ [][NextFunction]_vars

\* C4: encode_input returns InvalidData, and no bytes, when the tokens do not
\* type-check against the inputs; otherwise it returns the 4-byte selector of
\* (name, input types) followed by encode(tokens), 4 + 32k bytes in all.
EncodeInputFailsClosed ==
    pc = "called" =>
        IF types_check(tokens, input_param_types(function))
        THEN /\ IsOk(result)
             /\ Len(result.Ok) % 32 = 4
             /\ SubSeq(result.Ok, 1, 4)
                  = SubSeq(keccak256(SignatureText(function.name,
                                                   input_param_types(function))), 1, 4)
             /\ SubSeq(result.Ok, 5, Len(result.Ok)) = encode(tokens)
        ELSE result = Err("InvalidData")

\* a call whose tokens are as many as the inputs and of the wrong types
EncodeInputRejected ==
    /\ pc = "called"
    /\ Len(tokens) = Len(function.inputs)
    /\ ~types_check(tokens, input_param_types(function))
    /\ result = Err("InvalidData")

(***************************************************************************)
(* Event: parse_log.  An Event has a name, its inputs (name, kind,         *)
(* indexed) and the anonymous flag; a RawLog has topics and data.          *)
(***************************************************************************)
EventParam(name, kind, indexed) == [name |-> name, kind |-> kind, indexed |-> indexed]

RawLog(topics, bytes) == [topics |-> topics, data |-> bytes]

LogParam(name, value) == [name |-> name, value |-> value]

Log(params) == [params |-> params]

IsIndexed(p) == p.indexed
IsNotIndexed(p) == ~p.indexed

indexed_params(ev, indexed) ==
    IF indexed THEN SelectSeq(ev.inputs, IsIndexed) ELSE SelectSeq(ev.inputs, IsNotIndexed)

Kinds(params) == [i \in 1..Len(params) |-> params[i].kind]

param_types(ev) == Kinds(ev.inputs)

params_names(ev) == [i \in 1..Len(ev.inputs) |-> ev.inputs[i].name]

signature_of_indexed(ev) == long_signature(ev.name, Kinds(indexed_params(ev, TRUE)))

signature(ev) == long_signature(ev.name, param_types(ev))

Min(a, b) == IF a <= b THEN a ELSE b

\* params.into_iter().map(|p| p.name).zip(tokens.into_iter())
ZipNames(params, toks) ==
    [i \in 1..Min(Len(params), Len(toks)) |-> <<params[i].name, toks[i]>>]

\* HashMap::get on the map collected from pairs: a later pair replaces an earlier
\* pair of the same key
HashMapGet(pairs, key) ==
    pairs[CHOOSE i \in 1..Len(pairs) :
            /\ pairs[i][1] = key
            /\ \A j \in (i + 1)..Len(pairs) : pairs[j][1] # key][2]

HashMapHas(pairs, key) == \E i \in 1..Len(pairs) : pairs[i][1] = key

\* named_tokens.get(&name).unwrap().clone() for every name of params_names
DecodedParams(names, named_tokens) ==
    IF \A i \in 1..Len(names) : HashMapHas(named_tokens, names[i])
    THEN Ok(Log([i \in 1..Len(names) |->
                    LogParam(names[i], HashMapGet(named_tokens, names[i]))]))
    ELSE Panic("called Option::unwrap() on a None value")

AfterData(ev, topic_tokens, data_tokens) ==
    IF ~IsOk(data_tokens) THEN data_tokens
    ELSE DecodedParams(params_names(ev),
                       ZipNames(indexed_params(ev, TRUE), topic_tokens)
                       \o ZipNames(indexed_params(ev, FALSE), data_tokens.Ok))

AfterTopics(bld, ev, lg, to_skip, topic_tokens) ==
    IF ~IsOk(topic_tokens) THEN topic_tokens
    ELSE IF to_skip > Len(lg.topics)
    THEN IF bld.checks THEN Panic("attempt to subtract with overflow")
         ELSE Err("InvalidData")
    ELSE IF Len(topic_tokens.Ok) # Len(lg.topics) - to_skip THEN Err("InvalidData")
    ELSE AfterData(ev, topic_tokens.Ok,
                   decode(bld, Kinds(indexed_params(ev, FALSE)), lg.data))

ParseTopics(bld, ev, lg, to_skip) ==
    AfterTopics(bld, ev, lg, to_skip,
                decode(bld, Kinds(indexed_params(ev, TRUE)),
                       Flatten(SubSeq(lg.topics, to_skip + 1, Len(lg.topics)))))

parse_log(bld, ev, lg) ==
    IF ev.anonymous THEN ParseTopics(bld, ev, lg, 0)
    ELSE IF lg.topics = <<>> THEN Err("InvalidData")
    ELSE IF lg.topics[1] # signature(ev) THEN Err("InvalidData")
    ELSE ParseTopics(bld, ev, lg, 1)

(***************************************************************************)
(* The events and the logs handed to parse_log.                            *)
(***************************************************************************)
ParamNames == { "a", "b", "" }

EventKinds == { PBool, PString, PArray(PBool) }

EventParams ==
    { EventParam(n, k, x) : n \in ParamNames, k \in EventKinds, x \in BOOLEAN }

EventInputs ==
    {<<>>} \cup { <<p>> : p \in EventParams } \cup { <<p, q>> : p, q \in EventParams }

Events ==
    { [name |-> Foo, inputs |-> ins, anonymous |-> anon] :
        ins \in EventInputs, anon \in BOOLEAN }

TopicWords == { pad_u32(1), pad_u32(32), Word1 }

RECURSIVE TopicSeqs(_)
TopicSeqs(n) ==
    IF n = 0 THEN {<<>>}
    ELSE TopicSeqs(n - 1)
         \cup { <<w>> \o ws : w \in TopicWords, ws \in { x \in TopicSeqs(n - 1) : Len(x) = n - 1 } }

LogData == { <<>>, pad_u32(1), pad_u32(0) \o pad_u32(1), encode(<<TString(Foo)>>) }

\* the logs an event is asked to parse: with and without its own topic-0 in front
RawLogs(ev) ==
    { RawLog(ts, d) : ts \in TopicSeqs(MaxTopics), d \in LogData }
    \cup { RawLog(<<signature(ev)>> \o ts, d) : ts \in TopicSeqs(MaxTopics), d \in LogData }

InitEvent ==
    /\ build = [bits |-> 64, checks |-> FALSE]
    /\ event \in Events
    /\ log \in RawLogs(event)
    /\ function = None
    /\ other = None
    /\ contract = None
    /\ tokens = <<>>
    /\ types = <<>>
    /\ data = <<>>
    /\ raw = None
    /\ pc = "log"
    /\ result = None

ParseLog ==
    /\ pc = "log"
    /\ result' = parse_log(build, event, log)
    /\ pc' = "parsed"
    /\ UNCHANGED <<build, types, tokens, data, function, other, contract, event, log, raw>>

NextEvent == ParseLog

SpecEvent == InitEvent /\ [][NextEvent]_vars

\* the topics of the log after the topic-0 of a non-anonymous event
RemainingTopics ==
    IF event.anonymous THEN log.topics
    ELSE SubSeq(log.topics, 2, Len(log.topics))

\* the position of input i among the inputs that are indexed as it is
Rank(ev, i) == Cardinality({ j \in 1..i : ev.inputs[j].indexed = ev.inputs[i].indexed })

\* the token decoded for input i: from the topics if it is indexed, from the data
\* otherwise
TokenOfInput(i) ==
    IF event.inputs[i].indexed
    THEN decode(build, Kinds(indexed_params(event, TRUE)),
                Flatten(RemainingTopics)).Ok[Rank(event, i)]
    ELSE decode(build, Kinds(indexed_params(event, FALSE)), log.data).Ok[Rank(event, i)]

\* C5: a successful parse_log returns one LogParam per input, in declaration
\* order, the i-th with the i-th input's name and the token decoded for that
\* input, whether or not the names are distinct or non-empty.
ParseLogReassembles ==
    (pc = "parsed" /\ IsOk(result)) =>
        /\ Len(result.Ok.params) = Len(event.inputs)
        /\ \A i \in 1..Len(event.inputs) :
              /\ result.Ok.params[i].name = event.inputs[i].name
              /\ result.Ok.params[i].value = TokenOfInput(i)

\* C6: when the number of topics after the optional topic-0 differs from the
\* number of indexed inputs, parse_log fails and the error is InvalidData.
TopicCountMismatchIsInvalidData ==
    (pc = "parsed" /\ Len(RemainingTopics) # Len(indexed_params(event, TRUE))) =>
        /\ IsErr(result)
        /\ \E i \in 1..Len(result.Err) : result.Err[i] = "InvalidData"

\* C7: an indexed input of a dynamic type is not decoded from its topic: for any
\* topic word parse_log succeeds and returns the word as a FixedBytes token.
IndexedDynamicIsOpaque ==
    ( /\ pc = "parsed"
      /\ event.inputs # <<>>
      /\ \A i \in 1..Len(event.inputs) :
            event.inputs[i].indexed /\ TypeIsDynamic(event.inputs[i].kind)
      /\ \A i, j \in 1..Len(event.inputs) :
            event.inputs[i].name = event.inputs[j].name => i = j
      /\ event.anonymous \/ (log.topics # <<>> /\ log.topics[1] = signature(event))
      /\ Len(RemainingTopics) = Len(event.inputs) ) =>
        /\ IsOk(result)
        /\ \A i \in 1..Len(event.inputs) :
              result.Ok.params[i].value = TFixedBytes(RemainingTopics[i])

(***************************************************************************)
(* Event: create_filter.  A Topic is Any, OneOf(list) or This(value); a    *)
(* RawTopicFilter has three topics of tokens and a TopicFilter four topics *)
(* of hashes.                                                              *)
(***************************************************************************)
AnyTopic == [Any |-> TRUE]
OneOf(xs) == [OneOf |-> xs]
This(x) == [This |-> x]

IsAny(topic) == "Any" \in DOMAIN topic
IsOneOf(topic) == "OneOf" \in DOMAIN topic
IsThis(topic) == "This" \in DOMAIN topic

RawTopicFilter(t0, t1, t2) == [topic0 |-> t0, topic1 |-> t1, topic2 |-> t2]

TopicFilter(t0, t1, t2, t3) == [topic0 |-> t0, topic1 |-> t1, topic2 |-> t2, topic3 |-> t3]

Some(x) == [Some |-> x]

\* kinds.get(i)
Get(kinds, i) == IF i < Len(kinds) THEN Some(kinds[i + 1]) ELSE None

\* the word of an encoding of exactly 32 bytes, the hash of any other
HashOrWord(encoded) == IF Len(encoded) = 32 THEN encoded ELSE keccak256(encoded)

convert_token_hashed(token, kind) ==
    IF ~type_check(token, kind) THEN Err("InvalidData")
    ELSE Ok(keccak256(encode(<<token>>)))

convert_token(token, kind) ==
    IF ~type_check(token, kind) THEN Err("InvalidData")
    ELSE Ok(HashOrWord(encode(<<token>>)))

\* tokens.into_iter().map(|token| convert_token(token, kind)).collect::<Result<Vec<_>, _>>()
ConvertAll(toks, kind) ==
    IF \E i \in 1..Len(toks) : ~IsOk(convert_token(toks[i], kind))
    THEN convert_token(toks[CHOOSE i \in 1..Len(toks) :
                                /\ ~IsOk(convert_token(toks[i], kind))
                                /\ \A j \in 1..(i - 1) : IsOk(convert_token(toks[j], kind))],
                       kind)
    ELSE Ok([i \in 1..Len(toks) |-> convert_token(toks[i], kind).Ok])

\* Ok(Topic::OneOf(topics)) / Ok(Topic::This(hash)) once the conversion is Ok
OneOfResult(r) == IF IsOk(r) THEN Ok(OneOf(r.Ok)) ELSE r
ThisResult(r) == IF IsOk(r) THEN Ok(This(r.Ok)) ELSE r

convert_topic_lenient(topic, kind) ==
    IF IsAny(topic) \/ kind = None THEN Ok(AnyTopic)
    ELSE IF IsOneOf(topic) THEN OneOfResult(ConvertAll(topic.OneOf, kind.Some))
    ELSE ThisResult(convert_token(topic.This, kind.Some))

convert_topic(topic, kind) ==
    IF IsAny(topic) THEN Ok(AnyTopic)
    ELSE IF kind = None THEN Err("InvalidData")
    ELSE IF IsOneOf(topic) THEN OneOfResult(ConvertAll(topic.OneOf, kind.Some))
    ELSE ThisResult(convert_token(topic.This, kind.Some))

\* TopicFilter { topic0: t0?, topic1: t1?, topic2: t2?, topic3: t3? }
BuildFilter(t0, t1, t2, t3) ==
    IF ~IsOk(t0) THEN t0
    ELSE IF ~IsOk(t1) THEN t1
    ELSE IF ~IsOk(t2) THEN t2
    ELSE IF ~IsOk(t3) THEN t3
    ELSE Ok(TopicFilter(t0.Ok, t1.Ok, t2.Ok, t3.Ok))

FilterOf(ev, rw, kinds) ==
    IF ev.anonymous
    THEN BuildFilter(convert_topic(rw.topic0, Get(kinds, 0)),
                     convert_topic(rw.topic1, Get(kinds, 1)),
                     convert_topic(rw.topic2, Get(kinds, 2)),
                     Ok(AnyTopic))
    ELSE BuildFilter(Ok(This(signature(ev))),
                     convert_topic(rw.topic0, Get(kinds, 0)),
                     convert_topic(rw.topic1, Get(kinds, 1)),
                     convert_topic(rw.topic2, Get(kinds, 2)))

create_filter_unsigned(ev, rw) ==
    BuildFilter(convert_topic(rw.topic0, Get(Kinds(indexed_params(ev, TRUE)), 0)),
                convert_topic(rw.topic1, Get(Kinds(indexed_params(ev, TRUE)), 1)),
                convert_topic(rw.topic2, Get(Kinds(indexed_params(ev, TRUE)), 2)),
                Ok(AnyTopic))

create_filter(ev, rw) == FilterOf(ev, rw, Kinds(indexed_params(ev, TRUE)))

(***************************************************************************)
(* The events and the raw filters handed to create_filter.                 *)
(***************************************************************************)
FilterNames == <<"a", "b", "c">>

FilterKinds == { PBool, PString }

RECURSIVE FilterInputs(_)
FilterInputs(n) ==
    IF n = 0 THEN {<<>>}
    ELSE FilterInputs(n - 1)
         \cup { Append(ins, EventParam(FilterNames[n], k, x)) :
                  ins \in { y \in FilterInputs(n - 1) : Len(y) = n - 1 },
                  k \in FilterKinds, x \in BOOLEAN }

FilterEvents ==
    { [name |-> Foo, inputs |-> ins, anonymous |-> anon] :
        ins \in FilterInputs(Len(FilterNames)), anon \in BOOLEAN }

FilterTokens == { TBool(TRUE), TString(Foo) }

RECURSIVE TokenRuns(_)
TokenRuns(n) ==
    IF n = 0 THEN {<<>>}
    ELSE TokenRuns(n - 1)
         \cup { Append(ts, t) : ts \in { y \in TokenRuns(n - 1) : Len(y) = n - 1 },
                                t \in FilterTokens }

RawTopics ==
    {AnyTopic} \cup { This(t) : t \in FilterTokens }
               \cup { OneOf(ts) : ts \in TokenRuns(MaxOneOf) }

RawTopicFilters == { RawTopicFilter(t0, t1, t2) : t0, t1, t2 \in RawTopics }

InitFilter ==
    /\ build = [bits |-> 64, checks |-> FALSE]
    /\ event \in FilterEvents
    /\ raw \in RawTopicFilters
    /\ log = None
    /\ function = None
    /\ other = None
    /\ contract = None
    /\ tokens = <<>>
    /\ types = <<>>
    /\ data = <<>>
    /\ pc = "filter"
    /\ result = None

CreateFilter ==
    /\ pc = "filter"
    /\ result' = create_filter(event, raw)
    /\ pc' = "filtered"
    /\ UNCHANGED <<build, types, tokens, data, function, other, contract, event, log, raw>>

NextFilter == CreateFilter

SpecFilter == InitFilter /\ [][NextFilter]_vars

\* slot k of a filter, raw or converted
Slot(filter, k) ==
    CASE k = 0 -> filter.topic0
      [] k = 1 -> filter.topic1
      [] k = 2 -> filter.topic2
      [] k = 3 -> filter.topic3

\* w(t): the word of encode([t]) when it is 32 bytes, its keccak256 otherwise
TopicWord(t) ==
    IF Len(encode(<<t>>)) = 32 THEN encode(<<t>>) ELSE keccak256(encode(<<t>>))

\* what a raw topic becomes: Any stays Any, the tokens of This and OneOf become
\* their words, in the same order
Converted(topic) ==
    IF IsAny(topic) THEN AnyTopic
    ELSE IF IsThis(topic) THEN This(TopicWord(topic.This))
    ELSE OneOf([i \in 1..Len(topic.OneOf) |-> TopicWord(topic.OneOf[i])])

\* C8 as stated: slot 0 of the filter is This(topic-0 hash of the event) when
\* the event is not anonymous and Any when it is anonymous, whatever the raw
\* filter contains.
Slot0SignatureOrAny ==
    (pc = "filtered" /\ IsOk(result)) =>
        result.Ok.topic0 = IF event.anonymous THEN AnyTopic ELSE This(signature(event))

\* C8 amended: slot 0 is This(topic-0 hash) when the event is not anonymous; when
\* it is anonymous, slot 0 is raw slot 0 converted and slot 3 is Any.
Slot0SignatureOrFirstIndexed ==
    (pc = "filtered" /\ IsOk(result)) =>
        IF event.anonymous
        THEN result.Ok.topic0 = Converted(raw.topic0) /\ result.Ok.topic3 = AnyTopic
        ELSE result.Ok.topic0 = This(long_signature(event.name, param_types(event)))

\* a filter of an anonymous event whose raw slot 0 names a token
AnonymousFilterWithTopic0 ==
    /\ pc = "filtered"
    /\ IsOk(result)
    /\ event.anonymous
    /\ IsThis(raw.topic0)
    /\ IsThis(result.Ok.topic0)

BadSlot(k) ==
    /\ ~IsAny(Slot(raw, k))
    /\ \/ k >= Len(indexed_params(event, TRUE))
       \/ /\ IsThis(Slot(raw, k))
          /\ ~type_check(Slot(raw, k).This, indexed_params(event, TRUE)[k + 1].kind)
       \/ /\ IsOneOf(Slot(raw, k))
          /\ \E i \in 1..Len(Slot(raw, k).OneOf) :
                ~type_check(Slot(raw, k).OneOf[i], indexed_params(event, TRUE)[k + 1].kind)

\* C10: create_filter returns InvalidData, and no filter, when some This or OneOf
\* slot has a token of the wrong type or no indexed input to match; slots that
\* are Any cause no error.
BadSlotIsInvalidData ==
    pc = "filtered" =>
        IF \E k \in 0..2 : BadSlot(k)
        THEN result = Err("InvalidData")
        ELSE IsOk(result)

\* a raw filter whose slot 1 names a token while the event has one indexed input
FilterWithoutIndexedInput ==
    /\ pc = "filtered"
    /\ Len(indexed_params(event, TRUE)) = 1
    /\ ~BadSlot(0)
    /\ IsThis(raw.topic1)
    /\ IsAny(raw.topic2)
    /\ result = Err("InvalidData")

(***************************************************************************)
(* Signatures of two interfaces side by side: a Function and a second      *)
(* Function or AbiError, or two Events.                                    *)
(***************************************************************************)
\* Error::encode
error_encode(err, toks) ==
    IF ~types_check(toks, Kinds(err.inputs))
    THEN Err("InvalidData")
    ELSE Ok(short_signature(err.name, Kinds(err.inputs)) \o encode(toks))

SigKinds == { PAddress, PBool }

SigParams ==
    { [name |-> n, kind |-> k, internal_type |-> it] :
        n \in {"a", "b"}, k \in SigKinds, it \in {None, Some("struct S")} }

SigInputs == {<<>>} \cup { <<p>> : p \in SigParams } \cup { <<p, q>> : p, q \in SigParams }

StateMutability == { "pure", "view", "nonpayable", "payable" }

SigFunctions ==
    { [name |-> n, inputs |-> ins, outputs |-> outs, constant |-> c, state_mutability |-> m] :
        n \in Names, ins \in SigInputs,
        outs \in {<<>>, <<[name |-> "", kind |-> PBool, internal_type |-> None]>>},
        c \in BOOLEAN, m \in StateMutability }

SigErrors == { [name |-> n, inputs |-> ins] : n \in Names, ins \in SigInputs }

SigEventParams ==
    { EventParam(n, k, x) : n \in {"a", "b"}, k \in SigKinds, x \in BOOLEAN }

SigEvents ==
    { [name |-> n, inputs |-> ins, anonymous |-> anon] :
        n \in Names, anon \in BOOLEAN,
        ins \in {<<>>} \cup { <<p>> : p \in SigEventParams }
                       \cup { <<p, q>> : p, q \in SigEventParams } }

\* the first interface of a pair: plain names, no internal types, default flags
PlainFunctions ==
    { f \in SigFunctions :
        /\ f.outputs = <<>> /\ ~f.constant /\ f.state_mutability = "nonpayable"
        /\ \A i \in 1..Len(f.inputs) :
              f.inputs[i].name = "a" /\ f.inputs[i].internal_type = None }

PlainEvents ==
    { e \in SigEvents :
        /\ ~e.anonymous
        /\ \A i \in 1..Len(e.inputs) : e.inputs[i].name = "a" /\ ~e.inputs[i].indexed }

InitSignature ==
    /\ build = [bits |-> 64, checks |-> FALSE]
    /\ \/ /\ function \in PlainFunctions
          /\ other \in { [Function |-> f] : f \in SigFunctions }
                       \cup { [AbiError |-> e] : e \in SigErrors }
          /\ tokens \in TokenLists(Kinds(function.inputs), MaxNodes)
          /\ event = None
       \/ /\ event \in PlainEvents
          /\ other \in { [Event |-> e] : e \in SigEvents }
          /\ function = None
          /\ tokens = <<>>
    /\ contract = None
    /\ log = None
    /\ raw = None
    /\ types = <<>>
    /\ data = <<>>
    /\ pc = "pair"
    /\ result = None

\* the second interface of a pair of callables
OtherCallable == IF "Function" \in DOMAIN other THEN other.Function ELSE other.AbiError

EncodeBoth ==
    /\ pc = "pair"
    /\ function # None
    /\ result' = [first |-> encode_input(function, tokens),
                  second |-> IF "Function" \in DOMAIN other
                             THEN encode_input(other.Function, tokens)
                             ELSE error_encode(other.AbiError, tokens)]
    /\ pc' = "signed"
    /\ UNCHANGED <<build, types, tokens, data, function, other, contract, event, log, raw>>

SignBoth ==
    /\ pc = "pair"
    /\ event # None
    /\ result' = [first |-> signature(event), second |-> signature(other.Event)]
    /\ pc' = "signed"
    /\ UNCHANGED <<build, types, tokens, data, function, other, contract, event, log, raw>>

NextSignature == EncodeBoth \/ SignBoth

SpecSignature == InitSignature /\ [][NextSignature]_vars

\* C11: two callables (Function or AbiError) with the same name and the same
\* input types give the same 4-byte prefix whatever else they hold, and two
\* Events with the same name and input types give the same topic-0.
SelectorDependsOnNameAndTypes ==
    pc = "signed" =>
        /\ ( /\ function # None
             /\ OtherCallable.name = function.name
             /\ Kinds(OtherCallable.inputs) = Kinds(function.inputs) ) =>
                /\ IsOk(result.first) /\ IsOk(result.second)
                /\ SubSeq(result.first.Ok, 1, 4) = SubSeq(result.second.Ok, 1, 4)
        /\ ( /\ event # None
             /\ other.Event.name = event.name
             /\ Kinds(other.Event.inputs) = Kinds(event.inputs) ) =>
                result.first = result.second

\* two events of the same name and types that differ in the indexed flags, the
\* parameter names and the anonymous flag
EventsDifferOnlyInFlags ==
    /\ pc = "signed"
    /\ event # None
    /\ Len(event.inputs) = 2
    /\ other.Event.name = event.name
    /\ Kinds(other.Event.inputs) = Kinds(event.inputs)
    /\ other.Event.anonymous
    /\ other.Event.inputs[1].indexed /\ ~other.Event.inputs[2].indexed
    /\ other.Event.inputs[2].name = "b"
    /\ result.first = result.second

(***************************************************************************)
(* Type checking of a token list against a parameter-type list.            *)
(***************************************************************************)
CheckTypes ==
    { PAddress, PBool, PUint(32), PUint(256), PInt(256),
      PFixedBytes(3), PFixedBytes(4),
      PArray(PBool), PFixedArray(PBool, 1), PFixedArray(PBool, 2),
      PTuple(<<>>), PTuple(<<PBool, PUint(32)>>) }

CheckTokens ==
    { TAddress(Address1), TBool(TRUE), TUint(pad_u32(69)), TInt(Word1),
      TFixedBytes(Fill(3, 18)), TFixedBytes(Fill(4, 18)),
      TArray(<<>>), TArray(<<TBool(TRUE), TBool(FALSE)>>),
      TArray(<<TBool(TRUE), TUint(pad_u32(69))>>),
      TFixedArray(<<TBool(TRUE)>>), TFixedArray(<<TBool(TRUE), TBool(FALSE)>>),
      TFixedArray(<<TBool(TRUE), TUint(pad_u32(69))>>),
      TTuple(<<>>), TTuple(<<TBool(TRUE)>>),
      TTuple(<<TBool(TRUE), TUint(pad_u32(69))>>),
      TTuple(<<TUint(pad_u32(69)), TBool(TRUE)>>) }

UpToTwo(S) == {<<>>} \cup { <<x>> : x \in S } \cup { <<x, y>> : x, y \in S }

InitTypeCheck ==
    /\ build \in Builds
    /\ types \in UpToTwo(CheckTypes)
    /\ tokens \in UpToTwo(CheckTokens)
    /\ data = <<>>
    /\ function = None
    /\ other = None
    /\ contract = None
    /\ event = None
    /\ log = None
    /\ raw = None
    /\ pc = "check"
    /\ result = None

\* type_check(&tokens, &param_types)
TypeCheck ==
    /\ pc = "check"
    /\ result' = [Bool |-> types_check(tokens, types)]
    /\ pc' = "checked"
    /\ UNCHANGED <<build, types, tokens, data, function, other, contract, event, log, raw>>

NextTypeCheck == TypeCheck

SpecTypeCheck == InitTypeCheck /\ [][NextTypeCheck]_vars

\* the rules of the check, read off the type: a leaf type asks for the
\* variant of its own name whatever the width, a sized type also for the size
RECURSIVE Conforms(_, _)
Conforms(token, t) ==
    CASE t.k \in {"Address", "Bytes", "Int", "Uint", "Bool", "String"} ->
            DOMAIN token = {t.k}
      [] t.k = "FixedBytes" ->
            DOMAIN token = {"FixedBytes"} /\ Len(token.FixedBytes) = t.n
      [] t.k = "Array" ->
            DOMAIN token = {"Array"}
            /\ \A x \in { token.Array[i] : i \in DOMAIN token.Array } : Conforms(x, t.t)
      [] t.k = "FixedArray" ->
            DOMAIN token = {"FixedArray"}
            /\ Len(token.FixedArray) = t.n
            /\ \A x \in { token.FixedArray[i] : i \in DOMAIN token.FixedArray } :
                    Conforms(x, t.t)
      [] t.k = "Tuple" ->
            DOMAIN token = {"Tuple"}
            /\ DOMAIN token.Tuple = DOMAIN t.fields
            /\ \A i \in DOMAIN t.fields : Conforms(token.Tuple[i], t.fields[i])

\* C12: a token list type-checks against a type list exactly when the two
\* have the same length and every token matches the type at its position:
\* a FixedBytes token of exactly the declared length, every element of an
\* Array token of the element type, a FixedArray token of the declared
\* length with matching elements, a Tuple token component by component, and
\* for every other type the variant of the same name (widths not compared).
TypeCheckIsPositionwise ==
    pc = "checked" =>
        result = [Bool |-> /\ Len(tokens) = Len(types)
                           /\ \A i \in 1..Len(types) : Conforms(tokens[i], types[i])]

\* a Uint word accepted for Uint(32) next to a tuple accepted field by field
TupleAndNarrowUintAccepted ==
    /\ pc = "checked"
    /\ types = <<PUint(32), PTuple(<<PBool, PUint(32)>>)>>
    /\ tokens = <<TUint(pad_u32(69)), TTuple(<<TBool(TRUE), TUint(pad_u32(69))>>)>>
    /\ result = [Bool |-> TRUE]

(***************************************************************************)
(* Contract.  The maps of a Contract are functions from the names stored   *)
(* as keys to the list kept under each; the JSON array handed to load is   *)
(* the sequence of the operations deserialized from it.                    *)
(***************************************************************************)
InvalidName(name) == [Err |-> <<"InvalidName">>, name |-> name]

Default ==
    [constructor |-> None, functions |-> <<>>, events |-> <<>>, errors |-> <<>>,
     receive |-> FALSE, fallback |-> FALSE]

\* map.insert(key, vec![v]): the list kept under the key is replaced
entry_insert(map, key, v) ==
    [k \in DOMAIN map \cup {key} |-> IF k = key THEN <<v>> ELSE map[k]]

\* map.entry(key).or_default().push(v)
entry_push(map, key, v) ==
    [k \in DOMAIN map \cup {key} |->
        IF k # key THEN map[k]
        ELSE IF key \in DOMAIN map THEN Append(map[key], v) ELSE <<v>>]

\* map.entry(key).or_default(): the key is made, nothing is pushed
entry_or_default(map, key) ==
    [k \in DOMAIN map \cup {key} |-> IF k \in DOMAIN map THEN map[k] ELSE <<>>]

\* a loop that also makes the entry of an event's name in the functions
visit_touching_functions(c, operation) ==
    CASE "Constructor" \in DOMAIN operation ->
            [c EXCEPT !.constructor = Some(operation.Constructor)]
      [] "Function" \in DOMAIN operation ->
            [c EXCEPT !.functions =
                entry_push(c.functions, operation.Function.name, operation.Function)]
      [] "Event" \in DOMAIN operation ->
            [c EXCEPT !.functions = entry_or_default(c.functions, operation.Event.name),
                      !.events = entry_push(c.events, operation.Event.name, operation.Event)]
      [] "Error" \in DOMAIN operation ->
            [c EXCEPT !.errors = entry_push(c.errors, operation.Error.name, operation.Error)]
      [] "Fallback" \in DOMAIN operation -> [c EXCEPT !.fallback = TRUE]
      [] "Receive" \in DOMAIN operation -> [c EXCEPT !.receive = TRUE]

\* one turn of the loop of visit_seq
visit(c, operation) ==
    CASE "Constructor" \in DOMAIN operation ->
            [c EXCEPT !.constructor = Some(operation.Constructor)]
      [] "Function" \in DOMAIN operation ->
            [c EXCEPT !.functions =
                entry_push(c.functions, operation.Function.name, operation.Function)]
      [] "Event" \in DOMAIN operation ->
            [c EXCEPT !.events = entry_push(c.events, operation.Event.name, operation.Event)]
      [] "Error" \in DOMAIN operation ->
            [c EXCEPT !.errors = entry_push(c.errors, operation.Error.name, operation.Error)]
      [] "Fallback" \in DOMAIN operation -> [c EXCEPT !.fallback = TRUE]
      [] "Receive" \in DOMAIN operation -> [c EXCEPT !.receive = TRUE]

RECURSIVE visit_all(_, _)
visit_all(c, seq) ==
    IF seq = <<>> THEN c ELSE visit_all(visit(c, Head(seq)), Tail(seq))

visit_seq(seq) == visit_all(Default, seq)

\* map.get(name).into_iter().flatten().next().ok_or_else(|| InvalidName(name))
first_of(map, name) ==
    IF name \in DOMAIN map /\ map[name] # <<>> THEN Ok(Head(map[name]))
    ELSE InvalidName(name)

\* map.get(name).ok_or_else(|| InvalidName(name))
by_name(map, name) ==
    IF name \in DOMAIN map THEN Ok(map[name]) ELSE InvalidName(name)

function_named(c, name) == first_of(c.functions, name)
event_named(c, name) == first_of(c.events, name)
error_named(c, name) == first_of(c.errors, name)
functions_by_name(c, name) == by_name(c.functions, name)
events_by_name(c, name) == by_name(c.events, name)
errors_by_name(c, name) == by_name(c.errors, name)

MaxOperations == 3    \* longest array of operations handed to load

Baz == <<98, 97, 122>>
FooCall == Foo \o <<40, 41>>      \* "foo()"

AbiParam(name, kind) == [name |-> name, kind |-> kind, internal_type |-> None]

AbiFunction(name, inputs, mutability) ==
    [name |-> name, inputs |-> inputs, outputs |-> <<>>, constant |-> FALSE,
     state_mutability |-> mutability]

AbiFunctions ==
    { AbiFunction(Foo, <<AbiParam("a", PAddress)>>, "nonpayable"),
      AbiFunction(Foo, <<AbiParam("a", PBool)>>, "view"),
      AbiFunction(Bar, <<>>, "payable"),
      AbiFunction(Bar, <<AbiParam("t", PArray(PTuple(<<PBool, PTuple(<<PAddress>>)>>)))>>,
                  "pure") }

AbiEvents ==
    { [name |-> Foo, inputs |-> <<EventParam("a", PBool, TRUE)>>, anonymous |-> FALSE],
      [name |-> Foo, inputs |-> <<>>, anonymous |-> TRUE],
      [name |-> Bar, inputs |-> <<EventParam("a", PAddress, FALSE)>>, anonymous |-> FALSE] }

AbiErrors ==
    { [name |-> Foo, inputs |-> <<AbiParam("a", PBool)>>],
      [name |-> Bar, inputs |-> <<>>] }

AbiConstructors == { [inputs |-> <<>>], [inputs |-> <<AbiParam("a", PAddress)>>] }

Operations ==
    { [Function |-> f] : f \in AbiFunctions } \cup { [Event |-> e] : e \in AbiEvents }
    \cup { [Error |-> e] : e \in AbiErrors } \cup { [Constructor |-> c] : c \in AbiConstructors }
    \cup { [Fallback |-> TRUE], [Receive |-> TRUE] }

RECURSIVE OperationSeqs(_)
OperationSeqs(n) ==
    IF n = 0 THEN {<<>>}
    ELSE LET shorter == OperationSeqs(n - 1)
         IN  shorter \cup { Append(seq, op) : seq \in { x \in shorter : Len(x) = n - 1 },
                                              op \in Operations }

\* the maps a caller can put into the public fields: lists of any length,
\* the empty one included, under any key
MapsOver(keys, lists) == UNION { [K -> lists] : K \in SUBSET keys }

FunctionMaps ==
    LET f1 == AbiFunction(Foo, <<AbiParam("a", PAddress)>>, "nonpayable")
        f2 == AbiFunction(Foo, <<AbiParam("a", PBool)>>, "view")
        f3 == AbiFunction(FooCall, <<>>, "pure")
    IN  MapsOver({Foo, Bar, FooCall}, {<<>>, <<f1>>, <<f2, f1>>, <<f3>>})

EventMaps ==
    MapsOver({Foo}, {<<>>, <<[name |-> Foo, inputs |-> <<>>, anonymous |-> TRUE]>>})

ErrorMaps == MapsOver({Bar}, {<<>>, <<[name |-> Bar, inputs |-> <<>>]>>})

Contracts ==
    { [constructor |-> ctor, functions |-> fs, events |-> es, errors |-> rs,
       receive |-> rcv, fallback |-> fb] :
        ctor \in {None} \cup { Some(c) : c \in AbiConstructors },
        fs \in FunctionMaps, es \in EventMaps, rs \in ErrorMaps,
        rcv \in BOOLEAN, fb \in {FALSE} }

InitContract ==
    /\ build \in {[bits |-> 64, checks |-> FALSE]}
    /\ types = <<>>
    /\ tokens = <<>>
    /\ data = <<>>
    /\ function = None
    /\ other = None
    /\ event = None
    /\ log = None
    /\ result = None
    /\ \/ /\ raw \in { Some(seq) : seq \in OperationSeqs(MaxOperations) }
          /\ contract = None
          /\ pc = "json"
       \/ /\ raw = None
          /\ contract \in Contracts
          /\ pc = "built"

\* Contract::load, once the array is deserialized into operations
Load ==
    /\ pc = "json"
    /\ contract' = visit_seq(raw.Some)
    /\ pc' = "loaded"
    /\ UNCHANGED <<build, types, tokens, data, function, other, event, log, raw, result>>

LookupNames == {Foo, Bar, Baz}

\* Contract::function / functions_by_name, and the same for events and errors
Lookup ==
    /\ pc \in {"loaded", "built"}
    /\ \E name \in LookupNames, kind \in {"function", "event", "error"} :
        /\ other' = [name |-> name, kind |-> kind]
        /\ result' =
            CASE kind = "function" ->
                    [first |-> function_named(contract, name),
                     all |-> functions_by_name(contract, name)]
              [] kind = "event" ->
                    [first |-> event_named(contract, name),
                     all |-> events_by_name(contract, name)]
              [] kind = "error" ->
                    [first |-> error_named(contract, name),
                     all |-> errors_by_name(contract, name)]
    /\ pc' = "looked"
    /\ UNCHANGED <<build, types, tokens, data, function, contract, event, log, raw>>

\* the records of one variant of the loaded array that carry the name
Carrying(variant, name) ==
    LET ops == SelectSeq(raw.Some,
                         LAMBDA op : variant \in DOMAIN op /\ op[variant].name = name)
    IN  [i \in 1..Len(ops) |-> ops[i][variant]]

\* the list kept under the name is the list of those records, no key without one
Kept(map, variant, name) ==
    IF Carrying(variant, name) = <<>> THEN name \notin DOMAIN map
    ELSE name \in DOMAIN map /\ map[name] = Carrying(variant, name)

\* C13: after load has processed an array of operations, the list kept under
\* every name holds exactly the function records carrying that name, in the
\* order of the array, none dropped, merged or overwritten; the same for
\* events and for errors.
LoadKeepsEveryRecordInOrder ==
    (raw # None /\ pc # "json") =>
        \A name \in LookupNames :
            /\ Kept(contract.functions, "Function", name)
            /\ Kept(contract.events, "Event", name)
            /\ Kept(contract.errors, "Error", name)

\* two overloads of foo loaded around a function of another name
OverloadsLoadedAroundAnother ==
    /\ pc = "loaded"
    /\ Len(raw.Some) = 3
    /\ "Function" \in DOMAIN raw.Some[1] /\ raw.Some[1].Function.name = Foo
    /\ "Function" \in DOMAIN raw.Some[2] /\ raw.Some[2].Function.name = Bar
    /\ "Function" \in DOMAIN raw.Some[3] /\ raw.Some[3].Function.name = Foo
    /\ raw.Some[1] # raw.Some[3]
    /\ contract.functions[Foo] = <<raw.Some[1].Function, raw.Some[3].Function>>

\* the map the lookup of the state went to
LookedMap ==
    CASE other.kind = "function" -> contract.functions
      [] other.kind = "event" -> contract.events
      [] other.kind = "error" -> contract.errors

\* C14: function(name), event(name) and error(name) return the first entry of
\* the list stored under the name and fail with InvalidName(name) exactly
\* when the name is absent; the by_name lookups return the whole list and
\* fail under the same condition, so the two succeed or fail together.
LookupsSucceedTogether ==
    pc = "looked" =>
        /\ IsOk(result.first) <=> other.name \in DOMAIN LookedMap
        /\ IsOk(result.all) <=> other.name \in DOMAIN LookedMap
        /\ IsOk(result.first) => result.first = Ok(Head(LookedMap[other.name]))
        /\ IsOk(result.all) => result.all = Ok(LookedMap[other.name])
        /\ ~IsOk(result.first) => result.first = InvalidName(other.name)
        /\ ~IsOk(result.all) => result.all = InvalidName(other.name)

(***************************************************************************)
(* Reader: the text of a type back to the type.  Text is ASCII, so a char  *)
(* index is a byte index.  Numbers in the texts of the model have fewer    *)
(* than ten digits, so parse::<usize> never overflows here.                *)
(***************************************************************************)
\* str::trim
trim(s) ==
    LET keep == { i \in 1..Len(s) : s[i] \notin {9, 10, 13, 32} }
    IN  IF keep = {} THEN <<>>
        ELSE SubSeq(s, CHOOSE i \in keep : \A j \in keep : i <= j,
                       CHOOSE i \in keep : \A j \in keep : j <= i)

starts_with(s, prefix) == Len(prefix) <= Len(s) /\ SubSeq(s, 1, Len(prefix)) = prefix

RECURSIVE DigitsValue(_)
DigitsValue(digits) ==
    IF digits = <<>> THEN 0
    ELSE 10 * DigitsValue(SubSeq(digits, 1, Len(digits) - 1)) + (digits[Len(digits)] - 48)

\* str::parse::<usize>().map_err(Error::ParseInt): an optional + and digits
parse(s) ==
    LET digits == IF s # <<>> /\ s[1] = 43 THEN Tail(s) ELSE s
    IN  IF digits = <<>> \/ \E i \in 1..Len(digits) : digits[i] \notin 48..57
        THEN Err("ParseInt")
        ELSE Ok(DigitsValue(digits))

\* how often the char occurs in s[lo..hi]
Count(s, c, lo, hi) == Cardinality({ i \in lo..hi : s[i] = c })

\* "int<len>", "uint<len>", "bytes<len>"
Sized(len, k) == IF IsOk(len) THEN Ok([k |-> k, n |-> len.Ok]) ELSE len

read_primitive(s) ==
    CASE s = <<97, 100, 100, 114, 101, 115, 115>> -> Ok(PAddress)
      [] s = <<98, 121, 116, 101, 115>> -> Ok(PBytes)
      [] s = <<98, 111, 111, 108>> -> Ok(PBool)
      [] s = <<115, 116, 114, 105, 110, 103>> -> Ok(PString)
      [] s = <<105, 110, 116>> -> Ok(PInt(256))
      [] s = <<116, 117, 112, 108, 101>> -> Ok(PTuple(<<>>))
      [] s = <<117, 105, 110, 116>> -> Ok(PUint(256))
      [] OTHER ->
            IF starts_with(s, <<105, 110, 116>>)
            THEN Sized(parse(SubSeq(s, 4, Len(s))), "Int")
            ELSE IF starts_with(s, <<117, 105, 110, 116>>)
            THEN Sized(parse(SubSeq(s, 5, Len(s))), "Uint")
            ELSE IF starts_with(s, <<98, 121, 116, 101, 115>>)
            THEN Sized(parse(SubSeq(s, 6, Len(s))), "FixedBytes")
            ELSE Ok(PUint(8))

\* the outcomes of the subtypes in the order read: the first that is not Ok
\* is returned, else the tuple of them
TupleOf(rs) ==
    IF \A k \in 1..Len(rs) : IsOk(rs[k]) THEN Ok(PTuple([k \in 1..Len(rs) |-> rs[k].Ok]))
    ELSE rs[CHOOSE k \in 1..Len(rs) : ~IsOk(rs[k]) /\ \A j \in 1..(k - 1) : IsOk(rs[j])]

\* the subtype is read before the size is parsed
ArrayOf(subtype, size_str) ==
    IF ~IsOk(subtype) THEN subtype
    ELSE IF size_str = <<>> THEN Ok(PArray(subtype.Ok))
    ELSE LET len == parse(size_str)
         IN  IF IsOk(len) THEN Ok(PFixedArray(subtype.Ok, len.Ok)) ELSE len

\* the commas of s met with parens = 0, in increasing order
TopLevelCommas(s) ==
    LET at == { i \in 1..Len(s) :
                    s[i] = 44 /\ Count(s, 40, 1, i - 1) = Count(s, 41, 1, i - 1) }
    IN  [k \in 1..Cardinality(at) |->
            CHOOSE i \in at : Cardinality({ j \in at : j < i }) = k - 1]

\* s[start..i] for the k-th subtype of a tuple cut at the commas
Segment(s, cuts, k) ==
    SubSeq(s, IF k = 1 THEN 1 ELSE cuts[k - 1] + 1,
              IF k = Len(cuts) + 1 THEN Len(s) ELSE cuts[k] - 1)

\* the '[' at which the scan from the right breaks: brackets is back at 0
MatchingOpen(s) ==
    { j \in 1..Len(s) :
        /\ s[j] = 91
        /\ Count(s, 93, j, Len(s)) = Count(s, 91, j, Len(s))
        /\ \A m \in (j + 1)..Len(s) :
                ~(s[m] = 91 /\ Count(s, 93, m, Len(s)) = Count(s, 91, m, Len(s))) }

RECURSIVE read(_, _)
RECURSIVE read_tuple(_, _)
RECURSIVE read_array(_, _)

read_tuple_cut(bld, s, cuts) ==
    TupleOf([k \in 1..(Len(cuts) + 1) |-> read(bld, Segment(s, cuts, k))])

read_tuple(bld, s) == read_tuple_cut(bld, s, TopLevelCommas(s))

\* i -= 1 runs once for every char that does not break the scan: when no
\* '[' brings brackets back to 0 it runs s.len() times on s.len() - 1, which
\* panics with overflow checks and wraps without them, and then &s[..i]
\* is out of range
read_array(bld, s) ==
    IF MatchingOpen(s) = {}
    THEN Panic(IF bld.checks THEN "attempt to subtract with overflow"
               ELSE "byte index out of bounds")
    ELSE LET j == CHOOSE x \in MatchingOpen(s) : TRUE
         IN  ArrayOf(read(bld, SubSeq(s, 1, j - 1)), SubSeq(s, j + 1, Len(s) - 1))

read_trimmed(bld, name) ==
    IF name # <<>> /\ name[1] = 40 /\ name[Len(name)] = 41
    THEN read_tuple(bld, SubSeq(name, 2, Len(name) - 1))
    ELSE IF name # <<>> /\ name[Len(name)] = 93
    THEN read_array(bld, name)
    ELSE read_primitive(name)

read(bld, name) == read_trimmed(bld, trim(name))

MaxPieces == 4        \* most pieces in the text handed to read

\* the pieces the texts of the model are put together from
Pieces ==
    { <<40>>, <<41>>, <<91>>, <<93>>, <<44>>, <<32>>, <<43>>, <<50>>, <<56>>,
      <<98, 111, 111, 108>>, <<117, 105, 110, 116>>, <<98, 121, 116, 101, 115>>,
      <<102, 111, 111>> }

RECURSIVE Texts(_)
Texts(n) ==
    IF n = 0 THEN {<<>>}
    ELSE {<<>>} \cup { p \o t : p \in Pieces, t \in Texts(n - 1) }

\* the types whose canonical text is read back
GrammarTypes ==
    LET leaves == { PAddress, PBool, PString, PBytes, PInt(256), PUint(8), PFixedBytes(2) }
        arrays == { PArray(t) : t \in leaves } \cup { PFixedArray(t, 2) : t \in {PBool, PUint(8)} }
        tuples == { PTuple(<<>>), PTuple(<<PBool>>), PTuple(<<PBool, PUint(8)>>),
                    PTuple(<<PArray(PBool), PFixedArray(PUint(8), 2)>>),
                    PTuple(<<PTuple(<<PBool, PAddress>>), PBool>>),
                    PTuple(<<PArray(PTuple(<<PBool, PAddress>>)), PTuple(<<PString>>)>>) }
    IN  leaves \cup arrays \cup tuples \cup { PArray(t) : t \in arrays \cup tuples }
        \cup { PFixedArray(t, 2) : t \in tuples }

InitReader ==
    /\ build \in Builds
    /\ tokens = <<>>
    /\ function = None
    /\ other = None
    /\ contract = None
    /\ event = None
    /\ log = None
    /\ raw = None
    /\ result = None
    /\ pc = "text"
    /\ \/ types = <<>> /\ data \in Texts(MaxPieces)
       \/ \E t \in GrammarTypes : types = <<t>> /\ data = write(t)

\* Reader::read(name)
Read ==
    /\ pc = "text"
    /\ result' = read(build, data)
    /\ pc' = "read"
    /\ UNCHANGED <<build, types, tokens, data, function, other, contract, event, log, raw>>

NextReader == Read

SpecReader == InitReader /\ [][NextReader]_vars

\* C16: read returns Ok or Err for every text and never panics: the scan of
\* read_array for the matching '[' never moves its index below zero and
\* never slices outside the text, also when the text ends with ']' and has
\* no matching '[', and read_tuple never slices outside its argument.
ReadNeverPanics == pc = "read" => IsOk(result) \/ IsErr(result)

AllDigits(s) == \A i \in 1..Len(s) : s[i] \in 48..57

\* the texts of the grammar: the keywords, bytesN, intN, uintN, the array
\* forms T[] and T[N], and the parenthesised tuples of such types
RECURSIVE IsType(_)
RECURSIVE IsTypeList(_)
IsTypeList(s) ==
    \/ IsType(s)
    \/ \E i \in 1..Len(s) :
        /\ s[i] = 44
        /\ IsType(SubSeq(s, 1, i - 1))
        /\ IsTypeList(SubSeq(s, i + 1, Len(s)))
IsType(s) ==
    \/ s \in { <<97, 100, 100, 114, 101, 115, 115>>, <<98, 111, 111, 108>>,
               <<115, 116, 114, 105, 110, 103>>, <<98, 121, 116, 101, 115>>,
               <<105, 110, 116>>, <<117, 105, 110, 116>> }
    \/ \E prefix \in { <<98, 121, 116, 101, 115>>, <<105, 110, 116>>, <<117, 105, 110, 116>> } :
        /\ starts_with(s, prefix)
        /\ Len(s) > Len(prefix)
        /\ AllDigits(SubSeq(s, Len(prefix) + 1, Len(s)))
    \/ /\ Len(s) >= 2
       /\ s[Len(s)] = 93
       /\ \E j \in 1..(Len(s) - 1) :
            /\ s[j] = 91
            /\ AllDigits(SubSeq(s, j + 1, Len(s) - 1))
            /\ IsType(SubSeq(s, 1, j - 1))
    \/ /\ Len(s) >= 2
       /\ s[1] = 40
       /\ s[Len(s)] = 41
       /\ (Len(s) = 2 \/ IsTypeList(SubSeq(s, 2, Len(s) - 1)))

\* C17: read returns an error, InvalidName or ParseInt, for every text that
\* is not a type of the grammar; it never returns Ok with a substituted type
\* for an unknown or empty name.
ReadRejectsNonGrammar ==
    (pc = "read" /\ ~IsType(data)) =>
        IsErr(result) /\ ErrKind(result) \in {"InvalidName", "ParseInt"}

\* C18: for every ParamType T, nested arrays, fixed arrays and tuples with
\* any number of fields included, read(write(T)) succeeds and returns T.
GrammarRoundTrip ==
    (pc = "read" /\ types # <<>>) => result = Ok(types[1])

(***************************************************************************)
(* Contract as JSON.  A JSON object is a record of its keys, an absent key *)
(* is None, the array is a sequence.                                       *)
(***************************************************************************)
\* Writer::write_for_abi(kind, false): a tuple is written as the word tuple
RECURSIVE write_for_abi(_)
write_for_abi(param) ==
    CASE param.k = "Array" -> write_for_abi(param.t) \o <<91, 93>>
      [] param.k = "FixedArray" ->
            write_for_abi(param.t) \o <<91>> \o Decimal(param.n) \o <<93>>
      [] param.k = "Tuple" -> <<116, 117, 112, 108, 101>>
      [] OTHER -> write(param)

RECURSIVE inner_tuple(_)
inner_tuple(param) ==
    CASE param.k \in {"Array", "FixedArray"} -> inner_tuple(param.t)
      [] param.k = "Tuple" -> Some(param.fields)
      [] OTHER -> None

\* inner_tuple_mut(kind).extend(kinds)
RECURSIVE extend_inner(_, _)
extend_inner(param, kinds) ==
    CASE param.k \in {"Array", "FixedArray"} ->
            [param EXCEPT !.t = extend_inner(param.t, kinds)]
      [] param.k = "Tuple" -> [param EXCEPT !.fields = param.fields \o kinds]
      [] OTHER -> param

\* the kind is left as read: the components are not put into the tuple
set_tuple_components_dropped(kind, components) == Ok(kind)

set_tuple_components(kind, components) ==
    IF inner_tuple(kind) = None THEN Ok(kind)
    ELSE IF components = None THEN Err("missing_field")
    ELSE Ok(extend_inner(kind, components.Some))

\* SerializeableParam: the type and, when it holds a tuple, its components
RECURSIVE SerializeableParam(_)
SerializeableParam(kind) ==
    [type |-> write_for_abi(kind),
     components |->
        IF inner_tuple(kind) = None THEN None
        ELSE Some([i \in 1..Len(inner_tuple(kind).Some) |->
                        SerializeableParam(inner_tuple(kind).Some[i])])]

\* the first outcome that is not Ok, else the sequence of the values
Collect(rs) ==
    IF \A k \in 1..Len(rs) : IsOk(rs[k]) THEN Ok([k \in 1..Len(rs) |-> rs[k].Ok])
    ELSE rs[CHOOSE k \in 1..Len(rs) : ~IsOk(rs[k]) /\ \A j \in 1..(k - 1) : IsOk(rs[j])]

\* the kind of a Param, EventParam or TupleParam object: the type is read
\* and the kinds of the components are put into its inner tuple
RECURSIVE kind_of_json(_, _)
components_of_json(bld, components) ==
    IF components = None THEN Ok(None)
    ELSE LET kinds == Collect([i \in 1..Len(components.Some) |->
                                   kind_of_json(bld, components.Some[i])])
         IN  IF IsOk(kinds) THEN Ok(Some(kinds.Ok)) ELSE kinds

kind_with(kind, components) ==
    IF ~IsOk(kind) THEN kind
    ELSE IF ~IsOk(components) THEN components
    ELSE set_tuple_components(kind.Ok, components.Ok)

kind_of_json(bld, json) ==
    kind_with(read(bld, json.type), components_of_json(bld, json.components))

\* impl Serialize for Param
param_to_json(p) ==
    [internalType |-> p.internal_type, name |-> p.name,
     type |-> SerializeableParam(p.kind).type,
     components |-> SerializeableParam(p.kind).components]

\* impl Serialize for EventParam
event_param_to_json(p) ==
    [name |-> p.name, type |-> SerializeableParam(p.kind).type, indexed |-> p.indexed,
     components |-> SerializeableParam(p.kind).components]

param_with(kind, json) ==
    IF IsOk(kind)
    THEN Ok([name |-> json.name, kind |-> kind.Ok, internal_type |-> json.internalType])
    ELSE kind

\* ParamVisitor::visit_map
param_of_json(bld, json) == param_with(kind_of_json(bld, json), json)

event_param_with(kind, json) ==
    IF IsOk(kind) THEN Ok(EventParam(json.name, kind.Ok, json.indexed)) ELSE kind

\* EventParamVisitor::visit_map
event_param_of_json(bld, json) == event_param_with(kind_of_json(bld, json), json)

params_to_json(params) == [i \in 1..Len(params) |-> param_to_json(params[i])]

params_of_json(bld, json) ==
    Collect([i \in 1..Len(json) |-> param_of_json(bld, json[i])])

\* the name as the JSON has it
sanitize_name_kept(name) == name

\* sanitize_name: a name is cut at its first "("
sanitize_name(name) ==
    IF \E i \in 1..Len(name) : name[i] = 40
    THEN SubSeq(name, 1, (CHOOSE i \in 1..Len(name) :
                              name[i] = 40 /\ \A j \in 1..(i - 1) : name[j] # 40) - 1)
    ELSE name

\* OperationRef, serialized with its tag
operation_to_json(operation) ==
    CASE "Constructor" \in DOMAIN operation ->
            [type |-> "constructor", inputs |-> params_to_json(operation.Constructor.inputs)]
      [] "Function" \in DOMAIN operation ->
            [type |-> "function", name |-> operation.Function.name,
             inputs |-> params_to_json(operation.Function.inputs),
             outputs |-> params_to_json(operation.Function.outputs),
             constant |-> operation.Function.constant,
             stateMutability |-> operation.Function.state_mutability]
      [] "Event" \in DOMAIN operation ->
            [type |-> "event", name |-> operation.Event.name,
             inputs |-> [i \in 1..Len(operation.Event.inputs) |->
                            event_param_to_json(operation.Event.inputs[i])],
             anonymous |-> operation.Event.anonymous]
      [] "Error" \in DOMAIN operation ->
            [type |-> "error", name |-> operation.Error.name,
             inputs |-> params_to_json(operation.Error.inputs)]
      [] "Fallback" \in DOMAIN operation -> [type |-> "fallback"]
      [] "Receive" \in DOMAIN operation -> [type |-> "receive"]

function_of_json(json, inputs, outputs) ==
    IF ~IsOk(inputs) THEN inputs
    ELSE IF ~IsOk(outputs) THEN outputs
    ELSE Ok([Function |->
                [name |-> sanitize_name(json.name), inputs |-> inputs.Ok,
                 outputs |-> outputs.Ok, constant |-> json.constant,
                 state_mutability |-> json.stateMutability]])

event_of_json(json, inputs) ==
    IF ~IsOk(inputs) THEN inputs
    ELSE Ok([Event |-> [name |-> sanitize_name(json.name), inputs |-> inputs.Ok,
                        anonymous |-> json.anonymous]])

error_of_json(json, inputs) ==
    IF ~IsOk(inputs) THEN inputs
    ELSE Ok([Error |-> [name |-> sanitize_name(json.name), inputs |-> inputs.Ok]])

constructor_of_json(inputs) ==
    IF ~IsOk(inputs) THEN inputs ELSE Ok([Constructor |-> [inputs |-> inputs.Ok]])

\* Operation, deserialized by its tag
operation_of_json(bld, json) ==
    CASE json.type = "constructor" -> constructor_of_json(params_of_json(bld, json.inputs))
      [] json.type = "function" ->
            function_of_json(json, params_of_json(bld, json.inputs),
                             params_of_json(bld, json.outputs))
      [] json.type = "event" ->
            event_of_json(json, Collect([i \in 1..Len(json.inputs) |->
                                            event_param_of_json(bld, json.inputs[i])]))
      [] json.type = "error" -> error_of_json(json, params_of_json(bld, json.inputs))
      [] json.type = "fallback" -> Ok([Fallback |-> TRUE])
      [] json.type = "receive" -> Ok([Receive |-> TRUE])

\* the order of the keys of a BTreeMap<String, _>
LexLess(a, b) ==
    \/ Len(a) < Len(b) /\ SubSeq(b, 1, Len(a)) = a
    \/ \E i \in 1..(IF Len(a) <= Len(b) THEN Len(a) ELSE Len(b)) :
        /\ a[i] < b[i]
        /\ \A j \in 1..(i - 1) : a[j] = b[j]

\* map.values(): the lists in the order of their keys
values(map) ==
    [k \in 1..Cardinality(DOMAIN map) |->
        map[CHOOSE key \in DOMAIN map :
                Cardinality({ x \in DOMAIN map : LexLess(x, key) }) = k - 1]]

\* for list in lists { for x in list { serialize_element(variant(x)) } }
RECURSIVE Elements(_, _)
Elements(lists, variant) ==
    IF lists = <<>> THEN <<>>
    ELSE [i \in 1..Len(Head(lists)) |->
            operation_to_json([x \in {variant} |-> Head(lists)[i]])]
         \o Elements(Tail(lists), variant)

\* impl Serialize for Contract
serialize(c) ==
    (IF c.constructor = None THEN <<>>
     ELSE <<operation_to_json([Constructor |-> c.constructor.Some])>>)
    \o Elements(values(c.functions), "Function")
    \o Elements(values(c.events), "Event")
    \o Elements(values(c.errors), "Error")
    \o (IF c.receive THEN <<operation_to_json([Receive |-> TRUE])>> ELSE <<>>)
    \o (IF c.fallback THEN <<operation_to_json([Fallback |-> TRUE])>> ELSE <<>>)

visit_elements(operations) ==
    IF IsOk(operations) THEN Ok(visit_seq(operations.Ok)) ELSE operations

\* impl Deserialize for Contract: every element is deserialized into an
\* Operation before it is visited, the first failure ends the visit
deserialize(bld, json) ==
    visit_elements(Collect([i \in 1..Len(json) |-> operation_of_json(bld, json[i])]))

\* serde_json::to_string(&contract), then serde_json::from_str of the text
SerDe ==
    /\ pc \in {"loaded", "built"}
    /\ data' = serialize(contract)
    /\ result' = deserialize(build, data')
    /\ pc' = "reloaded"
    /\ UNCHANGED <<build, types, tokens, function, other, contract, event, log, raw>>

NextContract == Load \/ Lookup \/ SerDe

SpecContract == InitContract /\ [][NextContract]_vars

\* C15: for every Contract, any combination of constructor, overloaded
\* functions, events, errors, receive and fallback, deserializing the JSON
\* it serializes to yields a Contract equal to it.
EveryContractRoundTrips == pc = "reloaded" => result = Ok(contract)

\* C15 as the code has it: the round trip holds for the contracts that load
\* produces, where every list is non-empty and is kept under the name its
\* records carry after the name is cut at its first "(".
LoadedContractRoundTrips ==
    (pc = "reloaded" /\ raw # None) => result = Ok(contract)

\* a loaded contract with two overloads of foo and a function with an array
\* of nested tuples among its inputs, serialized and read back
OverloadsAndTuplesReloaded ==
    /\ pc = "reloaded"
    /\ raw # None
    /\ Foo \in DOMAIN contract.functions
    /\ Len(contract.functions[Foo]) = 2
    /\ contract.functions[Foo][1] # contract.functions[Foo][2]
    /\ Bar \in DOMAIN contract.functions
    /\ contract.functions[Bar][1].inputs # <<>>
    /\ inner_tuple(contract.functions[Bar][1].inputs[1].kind) # None
    /\ result = Ok(contract)

(***************************************************************************)
(* Tokenizer: a value in text to tokens.  The positions pos and i of the   *)
(* loops count from 0 as in the code; the state of a loop is a record of   *)
(* its variables, with ret the value of an early return.                   *)
(***************************************************************************)
\* StrictTokenizer::tokenize_bool
tokenize_bool(value) ==
    IF value \in { <<116, 114, 117, 101>>, <<49>> } THEN Ok(TRUE)
    ELSE IF value \in { <<102, 97, 108, 115, 101>>, <<48>> } THEN Ok(FALSE)
    ELSE Err("InvalidData")

\* result.push(token) after Self::tokenize(..)?
Pushed(st, token) ==
    IF IsOk(token) THEN [st EXCEPT !.result = Append(@, token.Ok)]
    ELSE [st EXCEPT !.ret = Some(token)]

\* .map(Token::Variant)
MapOk(r, variant) == IF IsOk(r) THEN Ok([x \in {variant} |-> r.Ok]) ELSE r

LoopStart ==
    [result |-> <<>>, nested |-> 0, ignore |-> FALSE, last_item |-> 1,
     sub_nested |-> 0, sub_item_start |-> 1, last_is_sub |-> FALSE, next |-> 1, ret |-> None]

LoopEnd(st) ==
    IF st.ret # None THEN st.ret.Some
    ELSE IF st.ignore THEN Err("InvalidData")
    ELSE Ok(st.result)

RECURSIVE tokenize(_, _)

\* one turn of the loop of tokenize_array; sub_ stands for tuple_
array_step(value, param, st, i) ==
    LET ch == value[i + 1]
    IN  IF ch = 40 /\ ~st.ignore
        THEN [st EXCEPT !.sub_item_start = IF st.sub_nested = 0 THEN i ELSE @,
                        !.sub_nested = @ + 1]
        ELSE IF ch = 41 /\ ~st.ignore
        THEN IF st.sub_nested - 1 < 0
             THEN [st EXCEPT !.sub_nested = @ - 1, !.ret = Some(Err("InvalidData"))]
             ELSE IF st.sub_nested - 1 = 0
             THEN Pushed([st EXCEPT !.sub_nested = 0, !.last_is_sub = ~@],
                         tokenize(param, SubSeq(value, st.sub_item_start + 1, i + 1)))
             ELSE [st EXCEPT !.sub_nested = @ - 1]
        ELSE IF st.sub_nested # 0 THEN st
        ELSE IF ch = 91 /\ ~st.ignore THEN [st EXCEPT !.nested = @ + 1]
        ELSE IF ch = 93 /\ ~st.ignore /\ st.last_is_sub
        THEN [st EXCEPT !.nested = @ - 1, !.last_is_sub = ~@]
        ELSE IF ch = 93 /\ ~st.ignore
        THEN IF st.nested - 1 < 0
             THEN [st EXCEPT !.nested = @ - 1, !.ret = Some(Err("InvalidData"))]
             ELSE IF st.nested - 1 = 0
             THEN Pushed([st EXCEPT !.nested = 0, !.last_item = i + 1],
                         tokenize(param, SubSeq(value, st.last_item + 1, i)))
             ELSE [st EXCEPT !.nested = @ - 1]
        ELSE IF ch = 34 THEN [st EXCEPT !.ignore = ~@]
        ELSE IF ch = 44 /\ st.sub_nested = 0 /\ st.nested = 1 /\ ~st.ignore /\ st.last_is_sub
        THEN [st EXCEPT !.last_is_sub = ~@]
        ELSE IF ch = 44 /\ st.sub_nested = 0 /\ st.nested = 1 /\ ~st.ignore
        THEN Pushed([st EXCEPT !.last_item = i + 1],
                    tokenize(param, SubSeq(value, st.last_item + 1, i)))
        ELSE st

RECURSIVE array_loop(_, _, _, _)
array_loop(value, param, st, i) ==
    IF st.ret # None \/ i = Len(value) THEN LoopEnd(st)
    ELSE array_loop(value, param, array_step(value, param, st, i), i + 1)

tokenize_array(value, param) ==
    IF value = <<>> \/ value[1] # 91 \/ value[Len(value)] # 93 THEN Err("InvalidData")
    ELSE IF Len(value) = 2 THEN Ok(<<>>)
    ELSE array_loop(value, param, LoopStart, 0)

tokenize_fixed_array(value, param, len) ==
    LET items == tokenize_array(value, param)
    IN  IF IsOk(items) /\ Len(items.Ok) # len THEN Err("InvalidData") ELSE items

\* Self::tokenize(params.next().ok_or(Error::InvalidData)?, sub)?
NextToken(st, params, sub) ==
    IF st.next > Len(params) THEN [st EXCEPT !.ret = Some(Err("InvalidData"))]
    ELSE Pushed([st EXCEPT !.next = @ + 1], tokenize(params[st.next], sub))

\* one turn of the loop of tokenize_struct; sub_ stands for array_
struct_step(value, params, st, pos) ==
    LET ch == value[pos + 1]
    IN  IF ch = 91 /\ ~st.ignore
        THEN [st EXCEPT !.sub_item_start = IF st.sub_nested = 0 THEN pos ELSE @,
                        !.sub_nested = @ + 1]
        ELSE IF ch = 93 /\ ~st.ignore
        THEN IF st.nested > 0 THEN [st EXCEPT !.sub_nested = @ - 1]
             ELSE IF st.sub_nested - 1 < 0
             THEN [st EXCEPT !.sub_nested = @ - 1, !.ret = Some(Err("InvalidData"))]
             ELSE IF st.sub_nested - 1 = 0
             THEN NextToken([st EXCEPT !.sub_nested = 0, !.last_is_sub = ~@], params,
                            SubSeq(value, st.sub_item_start + 1, pos + 1))
             ELSE [st EXCEPT !.sub_nested = @ - 1]
        ELSE IF st.sub_nested # 0 THEN st
        ELSE IF ch = 40 /\ ~st.ignore THEN [st EXCEPT !.nested = @ + 1]
        ELSE IF ch = 41 /\ ~st.ignore /\ st.last_is_sub
        THEN [st EXCEPT !.nested = @ - 1, !.last_is_sub = ~@]
        ELSE IF ch = 41 /\ ~st.ignore
        THEN IF st.nested - 1 < 0
             THEN [st EXCEPT !.nested = @ - 1, !.ret = Some(Err("InvalidData"))]
             ELSE IF st.nested - 1 = 0
             THEN NextToken([st EXCEPT !.nested = 0, !.last_item = pos + 1], params,
                            SubSeq(value, st.last_item + 1, pos))
             ELSE [st EXCEPT !.nested = @ - 1]
        ELSE IF ch = 34 THEN [st EXCEPT !.ignore = ~@]
        ELSE IF ch = 44 /\ st.sub_nested = 0 /\ st.nested = 1 /\ ~st.ignore /\ st.last_is_sub
        THEN [st EXCEPT !.last_is_sub = ~@]
        ELSE IF ch = 44 /\ st.nested = 1 /\ ~st.ignore
        THEN NextToken([st EXCEPT !.last_item = pos + 1], params,
                       SubSeq(value, st.last_item + 1, pos))
        ELSE st

RECURSIVE struct_loop(_, _, _, _)
struct_loop(value, params, st, pos) ==
    IF st.ret # None \/ pos = Len(value) THEN LoopEnd(st)
    ELSE struct_loop(value, params, struct_step(value, params, st, pos), pos + 1)

tokenize_struct(value, params) ==
    IF value = <<>> \/ value[1] # 40 \/ value[Len(value)] # 41 THEN Err("InvalidData")
    ELSE IF Len(value) = 2 THEN Ok(<<>>)
    ELSE struct_loop(value, params, LoopStart, 0)

tokenize(param, value) ==
    CASE param.k = "Bool" -> MapOk(tokenize_bool(value), "Bool")
      [] param.k = "String" -> Ok(TString(value))
      [] param.k = "Array" -> MapOk(tokenize_array(value, param.t), "Array")
      [] param.k = "FixedArray" ->
            MapOk(tokenize_fixed_array(value, param.t, param.n), "FixedArray")
      [] param.k = "Tuple" -> MapOk(tokenize_struct(value, param.fields), "Tuple")

MaxValueLen == 5      \* longest value handed to the tokenizer, in chars

\* the chars of the values of the model: ( ) [ ] , " and 1
ValueChars == {40, 41, 91, 93, 44, 34, 49}

RECURSIVE ValueTexts(_)
ValueTexts(n) ==
    IF n = 0 THEN {<<>>}
    ELSE {<<>>} \cup { <<c>> \o t : c \in ValueChars, t \in ValueTexts(n - 1) }

ValueParams ==
    { <<PBool>>, <<PArray(PBool)>>, <<PTuple(<<PBool>>)>>, <<PString>>, <<PBool, PBool>> }

InitTokenizer ==
    /\ build \in {[bits |-> 64, checks |-> FALSE]}
    /\ types \in ValueParams
    /\ tokens = <<>>
    /\ data \in ValueTexts(MaxValueLen)
    /\ function = None
    /\ other = None
    /\ contract = None
    /\ event = None
    /\ log = None
    /\ raw = None
    /\ result = None
    /\ pc = "value"

\* Tokenizer::tokenize_array(value, param)
TokenizeArray ==
    /\ pc = "value"
    /\ Len(types) = 1
    /\ result' = tokenize_array(data, types[1])
    /\ pc' = "array"
    /\ UNCHANGED <<build, types, tokens, data, function, other, contract, event, log, raw>>

\* Tokenizer::tokenize_struct(value, params)
TokenizeStruct ==
    /\ pc = "value"
    /\ result' = tokenize_struct(data, types)
    /\ pc' = "struct"
    /\ UNCHANGED <<build, types, tokens, data, function, other, contract, event, log, raw>>

NextTokenizer == TokenizeArray \/ TokenizeStruct

SpecTokenizer == InitTokenizer /\ [][NextTokenizer]_vars

\* the char at i is outside quoted content
Unquoted(value, i) == Count(value, 34, 1, i - 1) % 2 = 0

\* how often the char occurs unquoted in value[1..hi]
Occurs(value, c, hi) ==
    Cardinality({ i \in 1..hi : value[i] = c /\ Unquoted(value, i) })

\* no closer comes before its opener and no opener is left without closer
Paired(value, opener, closer) ==
    /\ \A hi \in 1..Len(value) : Occurs(value, closer, hi) <= Occurs(value, opener, hi)
    /\ Occurs(value, closer, Len(value)) = Occurs(value, opener, Len(value))

Balanced(value) ==
    /\ Count(value, 34, 1, Len(value)) % 2 = 0
    /\ Paired(value, 91, 93)
    /\ Paired(value, 40, 41)

\* C19: tokenize_array and tokenize_struct fail with InvalidData for every
\* value whose square brackets, parentheses or double quotes are unbalanced
\* outside quoted content; they never return Ok for such a value.
UnbalancedIsInvalidData ==
    (pc \in {"array", "struct"} /\ ~Balanced(data)) => result = Err("InvalidData")

(***************************************************************************)
(* 256-bit integers.  A number is the sequence of its bytes, the least     *)
(* significant first; the arithmetic works on 36 bytes so that a decimal   *)
(* text of up to 86 digits has its exact value and a value of more than    *)
(* 256 bits shows in the bytes above the 32nd.                             *)
(***************************************************************************)
Wide == 1..36

Narrow == 1..32

\* a number below 2^31
Small(n) == <<n % 256, (n \div 256) % 256, (n \div 65536) % 256, n \div 16777216>> \o Zeros(32)

Widen(n) == n \o Zeros(4)

Low(n) == SubSeq(n, 1, 32)

\* every column keeps its low byte and takes the carry of the column below
Round(v) ==
    SubSeq([i \in Wide |-> (v[i] % 256) + (IF i = 1 THEN 0 ELSE v[i - 1] \div 256)], 1, 36)

\* columns of at most 256: a column of 256 sends a carry of one upwards
\* through the columns of 255 above it
Ripple(v) ==
    SubSeq([i \in Wide |->
              (v[i] + (IF \E j \in 1..(i - 1) :
                              v[j] = 256 /\ \A k \in (j + 1)..(i - 1) : v[k] = 255
                       THEN 1 ELSE 0)) % 256], 1, 36)

\* the bytes of the number whose columns are v, each column below 2^22
Carry(v) == Ripple(Round(Round(Round(v))))

UAdd256(a, b) == Carry(SubSeq([i \in Wide |-> a[i] + b[i]], 1, 36))

\* the sum of a[j] * b[i + 1 - j] for j in lo..hi
RECURSIVE Dot(_, _, _, _, _)
Dot(a, b, i, lo, hi) ==
    IF lo > hi THEN 0
    ELSE IF lo = hi THEN a[lo] * b[i + 1 - lo]
    ELSE Dot(a, b, i, lo, (lo + hi) \div 2) + Dot(a, b, i, ((lo + hi) \div 2) + 1, hi)

UMul256(a, b) == Carry(SubSeq([i \in Wide |-> Dot(a, b, i, 1, i)], 1, 36))

RECURSIVE Pow10(_)
Pow10(k) ==
    IF k <= 9 THEN Small(10 ^ k) ELSE UMul256(Pow10(k \div 2), Pow10(k - (k \div 2)))

\* the value of the digits s[lo..hi]
RECURSIVE DecNat(_, _, _)
DecNat(s, lo, hi) ==
    IF hi - lo < 9 THEN Small(DigitsValue(SubSeq(s, lo, hi)))
    ELSE UAdd256(UMul256(DecNat(s, lo, (lo + hi) \div 2), Pow10(hi - ((lo + hi) \div 2))),
                 DecNat(s, ((lo + hi) \div 2) + 1, hi))

UGreater(a, b) ==
    \E i \in DOMAIN a : a[i] > b[i] /\ \A k \in DOMAIN a : k > i => a[k] = b[k]

Other(message) == [Err |-> <<"Other">>, message |-> message]

\* Uint::from_dec_str, with From<FromDecStrErr> for Error
from_dec_value(n) ==
    IF \E i \in Wide \ Narrow : n[i] # 0 THEN Other("Uint parse error: InvalidLength")
    ELSE Ok(Low(n))

from_dec_str(value) ==
    IF \E i \in 1..Len(value) : value[i] \notin 48..57
    THEN Other("Uint parse error: InvalidCharacter")
    ELSE from_dec_value(DecNat(value, 1, Len(value)))

\* Uint::max_value() / 2
HalfMax == Fill(31, 255) \o <<127>>

\* the [u8; 32] of a Uint, most significant byte first
WordOf(n) == SubSeq([i \in Narrow |-> n[33 - i]], 1, 32)

\* !abs + 1
Negated(abs) ==
    Low(UAdd256(Widen(SubSeq([i \in Narrow |-> 255 - abs[i]], 1, 32)), Small(1)))

HexDigit(c) ==
    CASE c \in 48..57 -> c - 48
      [] c \in 97..102 -> c - 87
      [] c \in 65..70 -> c - 55

\* StrictTokenizer::tokenize_int: the 32 bytes of 64 hex digits
strict_tokenize_int(value) ==
    IF \E i \in 1..Len(value) : value[i] \notin (48..57) \cup (97..102) \cup (65..70)
    THEN Err("Hex")
    ELSE IF Len(value) % 2 = 1 THEN Err("Hex")
    ELSE IF Len(value) # 64 THEN Err("InvalidData")
    ELSE Ok(SubSeq([i \in Narrow |->
                        16 * HexDigit(value[2 * i - 1]) + HexDigit(value[2 * i])], 1, 32))

\* value.trim_start_matches('-')
trim_start_minus(value) ==
    IF \A i \in 1..Len(value) : value[i] = 45 THEN <<>>
    ELSE SubSeq(value, CHOOSE i \in 1..Len(value) :
                           value[i] # 45 /\ \A j \in 1..(i - 1) : value[j] = 45,
                Len(value))

int_of_abs(value, abs) ==
    IF ~IsOk(abs) THEN abs
    ELSE IF value # <<>> /\ value[1] = 45
    THEN IF \A i \in Narrow : abs.Ok[i] = 0 THEN Ok(WordOf(abs.Ok))
         ELSE IF UGreater(abs.Ok, Low(UAdd256(Widen(HalfMax), Small(1))))
         THEN Other("int256 parse error: Underflow")
         ELSE Ok(WordOf(Negated(abs.Ok)))
    ELSE IF UGreater(abs.Ok, HalfMax) THEN Other("int256 parse error: Overflow")
    ELSE Ok(WordOf(abs.Ok))

lenient_int(value, strict) ==
    IF IsOk(strict) THEN strict
    ELSE int_of_abs(value, from_dec_str(trim_start_minus(value)))

\* LenientTokenizer::tokenize_int
tokenize_int(value) == lenient_int(value, strict_tokenize_int(value))

(***************************************************************************)
(* Decimal texts of signed integers, given to LenientTokenizer::tokenize_int*)
(***************************************************************************)
MaxDecimal == 20

TwoDigits(d) == <<48 + (d \div 10), 48 + (d % 10)>>

\* the digits of 2^255 but the last two, which are 68
TwoTo255Head ==
    <<53, 55, 56, 57, 54, 48, 52, 52, 54, 49, 56, 54, 53, 56, 48, 57, 55, 55,
      49, 49, 55, 56, 53, 52, 57, 50, 53, 48, 52, 51, 52, 51, 57, 53, 51, 57,
      50, 54, 54, 51, 52, 57, 57, 50, 51, 51, 50, 56, 50, 48, 50, 56, 50, 48,
      49, 57, 55, 50, 56, 55, 57, 50, 48, 48, 51, 57, 53, 54, 53, 54, 52, 56,
      49, 57, 57>>

\* the digits of 2^256 but the last two, which are 36
TwoTo256Head ==
    <<49, 49, 53, 55, 57, 50, 48, 56, 57, 50, 51, 55, 51, 49, 54, 49, 57, 53,
      52, 50, 51, 53, 55, 48, 57, 56, 53, 48, 48, 56, 54, 56, 55, 57, 48, 55,
      56, 53, 51, 50, 54, 57, 57, 56, 52, 54, 54, 53, 54, 52, 48, 53, 54, 52,
      48, 51, 57, 52, 53, 55, 53, 56, 52, 48, 48, 55, 57, 49, 51, 49, 50, 57,
      54, 51, 57, 57>>

Magnitudes ==
    {Decimal(n) : n \in 0..MaxDecimal}
        \cup {TwoTo255Head \o TwoDigits(d) : d \in 60..75}
        \cup {TwoTo256Head \o TwoDigits(d) : d \in 30..40}
        \cup {Fill(62, 48) \o TwoDigits(d) : d \in 9..12}

IntTexts == {sign \o m : sign \in {<<>>, <<45>>}, m \in Magnitudes}

InitInt ==
    /\ build \in {[bits |-> 64, checks |-> FALSE]}
    /\ types = <<PInt(256)>>
    /\ tokens = <<>>
    /\ data \in IntTexts
    /\ function = None
    /\ other = None
    /\ contract = None
    /\ event = None
    /\ log = None
    /\ raw = None
    /\ result = None
    /\ pc = "decimal"

\* LenientTokenizer::tokenize_int(value)
TokenizeInt ==
    /\ pc = "decimal"
    /\ result' = tokenize_int(data)
    /\ pc' = "int"
    /\ UNCHANGED <<build, types, tokens, data, function, other, contract, event, log, raw>>

NextInt == TokenizeInt

SpecInt == InitInt /\ [][NextInt]_vars

\* the text is an optional minus sign and then decimal digits
IsDecimal(value) ==
    /\ Len(trim_start_minus(value)) >= 1
    /\ Len(value) - Len(trim_start_minus(value)) <= 1
    /\ \A i \in 1..Len(trim_start_minus(value)) : trim_start_minus(value)[i] \in 48..57

\* the digits without their leading zeros
Significant(digits) ==
    IF \A i \in 1..Len(digits) : digits[i] = 48 THEN <<>>
    ELSE SubSeq(digits, CHOOSE i \in 1..Len(digits) :
                            digits[i] # 48 /\ \A j \in 1..(i - 1) : digits[j] = 48,
                Len(digits))

\* a > b as numbers, both without leading zeros
DecGreater(a, b) ==
    \/ Len(a) > Len(b)
    \/ /\ Len(a) = Len(b)
       /\ \E i \in 1..Len(a) : a[i] > b[i] /\ \A j \in 1..(i - 1) : a[j] = b[j]

\* the word of a value v with -2^255 <= v <= 2^255-1, whose absolute value
\* has the digits m: the word of m when v >= 0, and else the word that
\* added to m gives 2^256
IsWordOf(word, negative, m) ==
    /\ IsOk(word)
    /\ IF negative
       THEN \A i \in Narrow :
                UAdd256(Widen(WordOf(word.Ok)), DecNat(m, 1, Len(m)))[i] = 0
       ELSE word.Ok = WordOf(Low(DecNat(m, 1, Len(m))))

InRange(word, negative, m) ==
    IF negative /\ DecGreater(m, TwoTo255Head \o <<54, 56>>)
    THEN word = Other("int256 parse error: Underflow")
    ELSE IF ~negative /\ DecGreater(m, TwoTo255Head \o <<54, 55>>)
    THEN word = Other("int256 parse error: Overflow")
    ELSE IsWordOf(word, negative, m)

\* C20: tokenize_int on a decimal text of value v gives the two's-complement
\* word of v when -2^255 <= v <= 2^255-1, the error "int256 parse error:
\* Underflow" when v < -2^255 and the error "int256 parse error: Overflow"
\* when v > 2^255-1.
IntWithinRangeOrMessage ==
    (pc = "int" /\ IsDecimal(data))
        => InRange(result, data[1] = 45, Significant(trim_start_minus(data)))

(***************************************************************************)
(* Encoding any tokens: lists that no list of types describes, such as an  *)
(* array whose elements are of different variants or a FixedBytes of 33    *)
(* bytes.  encode takes tokens only, so it accepts them all.               *)
(***************************************************************************)
MixedScalars ==
    { TBool(TRUE), TBytes(<<18, 52>>), TFixedBytes(Fill(33, 18)), TFixedBytes(<<>>) }

\* the sequences of at most n elements of S
RECURSIVE ListsOver(_, _)
ListsOver(S, n) ==
    IF n = 0 THEN {<<>>}
    ELSE ListsOver(S, n - 1)
         \cup { <<x>> \o l : x \in S, l \in { y \in ListsOver(S, n - 1) : Len(y) = n - 1 } }

RECURSIVE MixedTokens(_)
MixedTokens(depth) ==
    IF depth = 0 THEN MixedScalars
    ELSE MixedTokens(depth - 1)
         \cup { TArray(l) : l \in ListsOver(MixedTokens(depth - 1), MaxArrayLen) }
         \cup { TFixedArray(l) : l \in ListsOver(MixedTokens(depth - 1), MaxArrayLen) }

MixedLists ==
    {<<>>}
    \cup { <<t>> : t \in MixedTokens(MaxNesting) }
    \cup { <<t1, t2>> : t1, t2 \in MixedTokens(MaxNesting - 1) }

InitEncode ==
    /\ build \in {[bits |-> 64, checks |-> FALSE]}
    /\ types = <<>>
    /\ tokens \in MixedLists
    /\ data = <<>>
    /\ pc = "start"
    /\ result = None
    /\ function = None
    /\ other = None
    /\ contract = None
    /\ event = None
    /\ log = None
    /\ raw = None

NextEncode == Encode

SpecEncode == InitEncode /\ [][NextEncode]_vars

\* C21: whatever the tokens, type-checked or not and at any nesting, the
\* number of bytes of encode(tokens) is a multiple of 32.
EncodedInWholeWords ==
    pc = "encoded" => Len(data) % 32 = 0

\* an array of a 33-byte FixedBytes and a Bytes has been encoded
MixedArrayEncoded ==
    /\ pc = "encoded"
    /\ tokens = <<TArray(<<TFixedBytes(Fill(33, 18)), TBytes(<<18, 52>>)>>)>>
    /\ Len(data) = 224

(***************************************************************************)
(* Static types: their words and their word count.                         *)
(***************************************************************************)
RECURSIVE IsStaticType(_)
IsStaticType(t) ==
    CASE t.k \in {"Address", "Int", "Uint", "Bool"} -> TRUE
      [] t.k = "FixedBytes" -> t.n >= 1 /\ t.n <= 32
      [] t.k = "FixedArray" -> IsStaticType(t.t)
      [] OTHER -> FALSE

RECURSIVE static_word_count(_)
static_word_count(t) ==
    IF t.k = "FixedArray" THEN t.n * static_word_count(t.t) ELSE 1

\* the bytes of the scalars of a static token, in order: one word each
RECURSIVE ScalarBytes(_)
RECURSIVE ScalarBytesOf(_, _, _)
ScalarBytesOf(toks, lo, hi) ==
    IF lo > hi THEN <<>>
    ELSE IF lo = hi THEN ScalarBytes(toks[lo])
    ELSE ScalarBytesOf(toks, lo, (lo + hi) \div 2)
            \o ScalarBytesOf(toks, ((lo + hi) \div 2) + 1, hi)

ScalarBytes(token) ==
    LET k == Variant(token)
    IN  CASE k = "Address" -> Zeros(12) \o token.Address
          [] k = "Int" -> token.Int
          [] k = "Uint" -> token.Uint
          [] k = "Bool" -> Zeros(31) \o <<IF token.Bool THEN 1 ELSE 0>>
          [] k = "FixedBytes" -> token.FixedBytes \o Zeros(32 - Len(token.FixedBytes))
          [] k = "FixedArray" -> ScalarBytesOf(token.FixedArray, 1, Len(token.FixedArray))

\* C22: for a token of a static type (Address, Int, Uint, Bool, FixedBytes(n)
\* with 1 <= n <= 32, FixedArray of static elements at any nesting),
\* encode([token]) is the words of its scalars and nothing else, no offset
\* word, and has 32 bytes for every word of the type's static word count.
StaticSizing ==
    (pc = "encoded" /\ Len(types) = 1 /\ IsStaticType(types[1]))
        => /\ data = ScalarBytes(tokens[1])
           /\ Len(data) = 32 * static_word_count(types[1])

\* a fixed array of two fixed arrays of two FixedBytes(2) has been encoded
NestedStaticEncoded ==
    /\ pc = "encoded"
    /\ types = <<PFixedArray(PFixedArray(PFixedBytes(2), 2), 2)>>
    /\ Len(data) = 128

(***************************************************************************)
(* Loading a JSON array whose records carry any name, names with "("       *)
(* included.                                                               *)
(***************************************************************************)
\* "foo", "foo()", "()", "", "f(b(" and "(foo"
JsonNames ==
    { Foo, FooCall, <<40, 41>>, <<>>, <<102, 40, 98, 40>>, <<40>> \o Foo }

JsonOperations ==
    { operation_to_json([Function |-> AbiFunction(name, <<AbiParam("a", PAddress)>>, "view")]) :
        name \in JsonNames }
    \cup { operation_to_json([Event |-> [name |-> name, inputs |-> <<>>, anonymous |-> FALSE]]) :
              name \in JsonNames }
    \cup { operation_to_json([Error |-> [name |-> name, inputs |-> <<>>]]) : name \in JsonNames }

RECURSIVE JsonArrays(_)
JsonArrays(n) ==
    IF n = 0 THEN {<<>>}
    ELSE JsonArrays(n - 1)
         \cup { Append(seq, op) : seq \in { x \in JsonArrays(n - 1) : Len(x) = n - 1 },
                                  op \in JsonOperations }

InitJson ==
    /\ build \in {[bits |-> 64, checks |-> FALSE]}
    /\ types = <<>>
    /\ tokens = <<>>
    /\ data \in JsonArrays(MaxOperations)
    /\ function = None
    /\ other = None
    /\ contract = None
    /\ event = None
    /\ log = None
    /\ raw = None
    /\ result = None
    /\ pc = "text"

\* Contract::load(reader): serde_json::from_reader into a Contract
LoadJson ==
    /\ pc = "text"
    /\ result' = deserialize(build, data)
    /\ pc' = "parsed"
    /\ UNCHANGED <<build, types, tokens, data, function, other, contract, event, log, raw>>

NextJson == LoadJson

SpecJson == InitJson /\ [][NextJson]_vars

\* the longest prefix of the name that has no "("
Truncated(name) ==
    SubSeq(name, 1, CHOOSE k \in 0..Len(name) :
                        /\ \A j \in 1..k : name[j] # 40
                        /\ k < Len(name) => name[k + 1] = 40)

\* the names of the records of one type in the array, each truncated, in order
TruncatedNames(json, type) ==
    LET records == SelectSeq(json, LAMBDA op : op.type = type)
    IN  [i \in 1..Len(records) |-> Truncated(records[i].name)]

\* the map holds one record for every name of the sequence, under that name
NamedAs(map, names) ==
    /\ DOMAIN map = { names[i] : i \in 1..Len(names) }
    /\ \A key \in DOMAIN map :
        /\ Len(map[key]) = Cardinality({ i \in 1..Len(names) : names[i] = key })
        /\ \A i \in 1..Len(map[key]) :
            /\ map[key][i].name = key
            /\ \A j \in 1..Len(key) : key[j] # 40
            /\ sanitize_name(map[key][i].name) = map[key][i].name

\* C23: after loading, the name of every function, event and error is the
\* JSON name truncated at its first "(", unchanged when it has none: no
\* loaded name contains "(", a name that starts with "(" becomes empty, and
\* sanitizing a loaded name changes nothing.
LoadedNamesAreTruncated ==
    pc = "parsed" =>
        /\ IsOk(result)
        /\ NamedAs(result.Ok.functions, TruncatedNames(data, "function"))
        /\ NamedAs(result.Ok.events, TruncatedNames(data, "event"))
        /\ NamedAs(result.Ok.errors, TruncatedNames(data, "error"))
        /\ \A i \in 1..Len(data) :
            (data[i].type = "function" /\ data[i].name # <<>> /\ data[i].name[1] = 40)
                => <<>> \in DOMAIN result.Ok.functions

\* the functions "foo()" and "foo" loaded under foo, the event "()" under
\* the empty name
CallNamesLoaded ==
    /\ pc = "parsed"
    /\ Len(data) = 3
    /\ data[1].type = "function" /\ data[1].name = FooCall
    /\ data[2].type = "function" /\ data[2].name = Foo
    /\ data[3].type = "event" /\ data[3].name = <<40, 41>>
    /\ Len(result.Ok.functions[Foo]) = 2
    /\ result.Ok.events[<<>>][1].name = <<>>

(***************************************************************************)
(* Where the encoder's output has its offset words and where the tails     *)
(* they refer to begin, measured on the words that head and tail emit.     *)
(***************************************************************************)
\* the mediates that encode hands to encode_head_tail
MediatesOf(toks) == [i \in 1..Len(toks) |-> encode_token(toks[i])]

\* the bytes that the heads of the first n mediates take
RECURSIVE HeadBytes(_, _)
HeadBytes(mediates, n) ==
    IF n = 0 THEN 0 ELSE HeadBytes(mediates, n - 1) + 32 * Len(head(mediates[n], 0))

\* the bytes that the tails of the first n mediates take
RECURSIVE TailBytes(_, _)
TailBytes(mediates, n) ==
    IF n = 0 THEN 0 ELSE TailBytes(mediates, n - 1) + 32 * Len(tail(mediates[n]))

\* the byte index of the head of the i-th mediate of a block that begins at base
HeadAt(mediates, base, i) == base + HeadBytes(mediates, i - 1)

\* the byte index of the tail of the i-th mediate of a block that begins at base
TailAt(mediates, base, i) ==
    base + HeadBytes(mediates, Len(mediates)) + TailBytes(mediates, i - 1)

\* the pairs <<byte index of an offset word, byte index where the tail it
\* refers to begins>> of a block of mediates that begins at base, those of
\* the nested blocks included
RECURSIVE OffsetWords(_, _)
OffsetWords(mediates, base) ==
    UNION { IF Variant(mediates[i]) = "Raw" THEN {}
            ELSE { <<HeadAt(mediates, base, i), TailAt(mediates, base, i)>> }
                 \cup (CASE Variant(mediates[i]) = "Prefixed" -> {}
                         [] Variant(mediates[i]) = "PrefixedArray" ->
                                OffsetWords(mediates[i].PrefixedArray,
                                            TailAt(mediates, base, i))
                         [] Variant(mediates[i]) = "PrefixedArrayWithLength" ->
                                OffsetWords(mediates[i].PrefixedArrayWithLength,
                                            TailAt(mediates, base, i) + 32))
            : i \in 1..Len(mediates) }

\* C24: in encode(tokens) every offset word, those inside nested dynamic
\* arrays and dynamic fixed arrays included, is the byte index, counted from
\* byte 0 of the whole output, at which the tail it refers to begins.
OffsetsAreAbsolute ==
    pc = "encoded" =>
        \A p \in OffsetWords(MediatesOf(tokens), 0) :
            SubSeq(data, p[1] + 1, p[1] + 32) = pad_u32(p[2])

(***************************************************************************)
(* The layout of one call of encode_head_tail.                             *)
(***************************************************************************)
\* the lists of mediates that encode_head_tail is called with while it
\* encodes the list: the list and the lists of its nested arrays
RECURSIVE Blocks(_)
Blocks(mediates) ==
    {mediates}
    \cup UNION { CASE Variant(mediates[i]) = "PrefixedArray" ->
                        Blocks(mediates[i].PrefixedArray)
                   [] Variant(mediates[i]) = "PrefixedArrayWithLength" ->
                        Blocks(mediates[i].PrefixedArrayWithLength)
                   [] OTHER -> {}
                : i \in 1..Len(mediates) }

\* the sum of tail_len over the first n mediates
RECURSIVE TailLens(_, _)
TailLens(mediates, n) ==
    IF n = 0 THEN 0 ELSE TailLens(mediates, n - 1) + tail_len(mediates[n])

\* out is the heads of the mediates in order and then their tails in order;
\* every head that is an offset holds the sum of head_len over all mediates
\* plus the sum of tail_len over the mediates before it, which is the byte
\* index in out of its tail; head_len and tail_len are the bytes emitted
HeadsThenTails(mediates, out) ==
    /\ 32 * Len(out) = HeadBytes(mediates, Len(mediates)) + TailBytes(mediates, Len(mediates))
    /\ \A i \in 1..Len(mediates) :
        /\ head_len(mediates[i]) = 32 * Len(head(mediates[i], 0))
        /\ tail_len(mediates[i]) = 32 * Len(tail(mediates[i]))
        /\ SubSeq(out, (HeadAt(mediates, 0, i) \div 32) + 1,
                       HeadAt(mediates, 0, i + 1) \div 32)
                = head(mediates[i], HeadsLen(mediates) + TailLens(mediates, i - 1))
        /\ HeadsLen(mediates) + TailLens(mediates, i - 1) = TailAt(mediates, 0, i)
        /\ SubSeq(out, (TailAt(mediates, 0, i) \div 32) + 1,
                       TailAt(mediates, 0, i + 1) \div 32)
                = tail(mediates[i])

\* C25: for every list of mediates, at every nesting depth, encode_head_tail
\* emits all heads in list order and then all tails in the same order; the
\* offset word of the i-th non-Raw mediate is the sum of head_len over all
\* mediates plus the sum of tail_len over the mediates before i, and that is
\* the byte position in this call's output where the i-th tail starts;
\* head_len and tail_len are 32 times the words emitted by head and by tail.
HeadTailLayout ==
    pc = "encoded" =>
        \A mediates \in Blocks(MediatesOf(tokens)) :
            HeadsThenTails(mediates, encode_head_tail(mediates))

\* a Bytes and an array of a Bytes and a Bool: the second offset word of the
\* outer call is 128, the offset word of the inner call is 64
TwoOffsetsEncoded ==
    /\ pc = "encoded"
    /\ tokens = <<TBytes(<<18, 52>>), TArray(<<TBytes(<<18, 52>>), TBool(TRUE)>>)>>
    /\ SubSeq(data, 33, 64) = pad_u32(128)
    /\ SubSeq(data, 161, 192) = pad_u32(64)

(***************************************************************************)
(* decode_param on a FixedArray, at a head position of 0 or of 32.         *)
(***************************************************************************)
FixedArrayElements ==
    { PBool, PBytes, PString, PFixedBytes(0), PFixedBytes(2), PArray(PBool),
      PFixedArray(PBool, 2), PFixedArray(PBytes, 1) }

InitFixedArray ==
    /\ build \in Builds
    /\ types \in { <<PFixedArray(t, n)>> : t \in FixedArrayElements, n \in 0..MaxArrayLen }
    /\ data \in { Flatten(ws) : ws \in WordSeqs(MaxDataWords) }
    /\ other \in { Some(USize(0)), Some(USize(32)) }
    /\ tokens = <<>>
    /\ pc = "received"
    /\ result = None
    /\ function = None
    /\ contract = None
    /\ event = None
    /\ log = None
    /\ raw = None

\* decode_param(&ParamType::FixedArray(t, n), data, offset)
DecodeFixedArray ==
    /\ pc = "received"
    /\ result' = decode_param(build, types[1], data, other.Some)
    /\ pc' = "param"
    /\ UNCHANGED <<build, types, tokens, data, function, other, contract, event, log, raw>>

NextFixedArray == DecodeFixedArray

SpecFixedArray == InitFixedArray /\ [][NextFixedArray]_vars

\* the N elements decoded from the position d that the head word holds, the
\* head position advanced by 32
ElementsAtOffset(bld, param, bytes, offset, d) ==
    IF ~IsOk(d) THEN d
    ELSE ArrayResult(bld, offset,
                     DecodeElements(bld, param.t, bytes, d.Ok, 0, USize(param.n), <<>>))

\* C26: decoding FixedArray(T, N) with T dynamic reads one head word as an
\* offset d, decodes the N elements starting at d and advances the head
\* position by exactly 32 bytes; with T static it reads no offset, decodes
\* the N elements inline and advances the head position by their width.
FixedArrayByOffsetOrInline ==
    pc = "param" =>
        IF TypeIsDynamic(types[1].t)
        THEN /\ IsOk(result) =>
                    result.Ok.new_offset = UAdd(build, other.Some, USize(32)).Ok
             /\ IsOk(DynamicOffset(build, data, other.Some)) =>
                    \E elems \in {ElementsAtOffset(build, types[1], data, other.Some,
                                                   DynamicOffset(build, data, other.Some))} :
                        IF IsOk(elems)
                        THEN /\ IsOk(result)
                             /\ result.Ok.token = TFixedArray(elems.Ok.token.Array)
                        ELSE ~IsOk(result)
        ELSE /\ result = FixedArrayResult(DecodeElements(build, types[1].t, data, other.Some,
                                                         0, USize(types[1].n), <<>>))
             /\ IsOk(result) =>
                    UToInt(result.Ok.new_offset)
                        = UToInt(other.Some) + 32 * static_word_count(types[1])

(***************************************************************************)
(* Length prefixes against what is left of the buffer.                     *)
(***************************************************************************)
\* the bytes of the buffer after the length word at d
BytesAfterLength(bytes, d) ==
    IF Len(bytes) >= UToInt(d) + 32 THEN Len(bytes) - (UToInt(d) + 32) ELSE 0

\* the declared length is more than what is left after the length word:
\* whole words for the elements of an Array, bytes for Bytes and String
Oversized(param, bytes, d, len) ==
    IF param.k = "Array" THEN ULess(USize(BytesAfterLength(bytes, d) \div 32), len)
    ELSE ULess(USize(BytesAfterLength(bytes, d)), len)

\* C27: decode refuses oversized length prefixes: for Array(T), whatever T,
\* a declared element count larger than the number of whole words left
\* after the length word makes decode fail with InvalidData, and so does a
\* Bytes or String whose declared length is more than the bytes left.
OversizedLengthIsInvalidData ==
    (/\ pc = "decoded"
     /\ Len(types) = 1
     /\ types[1].k \in {"Array", "Bytes", "String"}
     /\ IsOk(DynamicOffset(build, data, USize(0)))
     /\ IsOk(DynamicLen(build, data, DynamicOffset(build, data, USize(0))))
     /\ Oversized(types[1], data, DynamicOffset(build, data, USize(0)).Ok,
                  DynamicLen(build, data, DynamicOffset(build, data, USize(0))).Ok))
        => IsErr(result) /\ RootCause(result) = "InvalidData"

(***************************************************************************)
(* Tokenizer::tokenize on one value and its type.                          *)
(***************************************************************************)
TokenizeParams ==
    { PBool, PArray(PBool), PFixedArray(PBool, 1), PFixedArray(PBool, 2),
      PTuple(<<PBool>>), PTuple(<<PBool, PBool>>), PTuple(<<PArray(PBool), PBool>>),
      PArray(PTuple(<<PBool>>)) }

InitTokenize ==
    /\ build \in {[bits |-> 64, checks |-> FALSE]}
    /\ types \in { <<t>> : t \in TokenizeParams }
    /\ tokens = <<>>
    /\ data \in ValueTexts(MaxValueLen)
    /\ function = None
    /\ other = None
    /\ contract = None
    /\ event = None
    /\ log = None
    /\ raw = None
    /\ result = None
    /\ pc = "value"

\* Tokenizer::tokenize(param, value)
Tokenize ==
    /\ pc = "value"
    /\ result' = tokenize(types[1], data)
    /\ pc' = "token"
    /\ UNCHANGED <<build, types, tokens, data, function, other, contract, event, log, raw>>

NextTokenize == Tokenize

SpecTokenize == InitTokenize /\ [][NextTokenize]_vars

\* C28: whenever tokenize(param, value) returns Ok(token), the token
\* type-checks against param: a FixedArray token has exactly len elements,
\* a Tuple token has one component for every field of the tuple type, never
\* fewer, and every element and component type-checks in its turn.
TokenizedTypeChecks ==
    (pc = "token" /\ IsOk(result)) => type_check(result.Ok, types[1])

(***************************************************************************)
(* parse_log on every target: the events and logs whose topics and data    *)
(* carry offsets up to the largest as_usize returns.                       *)
(***************************************************************************)
LogParamNames == { "a", "" }

LogKinds == { PBool, PString }

LogEventParams ==
    { EventParam(n, k, x) : n \in LogParamNames, k \in LogKinds, x \in BOOLEAN }

LogEvents ==
    { [name |-> Foo, inputs |-> ins, anonymous |-> anon] :
        ins \in {<<>>} \cup { <<p>> : p \in LogEventParams }
                     \cup { <<p, q>> : p, q \in LogEventParams },
        anon \in BOOLEAN }

LogTopicWords == { pad_u32(32), BigWord }

RECURSIVE LogTopicSeqs(_)
LogTopicSeqs(n) ==
    IF n = 0 THEN {<<>>}
    ELSE LogTopicSeqs(n - 1)
         \cup { <<w>> \o ws : w \in LogTopicWords,
                                ws \in { x \in LogTopicSeqs(n - 1) : Len(x) = n - 1 } }

LogBytes == { <<>>, pad_u32(1), BigWord, encode(<<TString(Foo)>>) }

LogsOf(ev) ==
    { RawLog(ts, d) : ts \in LogTopicSeqs(MaxTopics - 1), d \in LogBytes }
    \cup { RawLog(<<signature(ev)>> \o ts, d) :
              ts \in LogTopicSeqs(MaxTopics - 1), d \in LogBytes }

InitParseLog ==
    /\ build \in Builds
    /\ event \in LogEvents
    /\ log \in LogsOf(event)
    /\ function = None
    /\ other = None
    /\ contract = None
    /\ tokens = <<>>
    /\ types = <<>>
    /\ data = <<>>
    /\ raw = None
    /\ pc = "log"
    /\ result = None

SpecParseLog == InitParseLog /\ [][NextEvent]_vars

\* C29: parse_log never panics, for any event and any RawLog: it returns Ok
\* or Err.
ParseLogNeverPanics ==
    pc = "parsed" => ~IsPanic(result)

(***************************************************************************)
(* The command line: load_function and load_event read the ABI file, load  *)
(* the Contract and pick the function or event of a name or a signature.   *)
(***************************************************************************)
AddressCall == <<40, 97, 100, 100, 114, 101, 115, 115, 41>>    \* "(address)"

CliNames == { Foo, Bar, <<>>, FooCall, Foo \o AddressCall, <<40, 41>> }

\* Function::signature
function_signature(f) ==
    IF JoinTypes(Kinds(f.outputs)) = <<>>
    THEN f.name \o <<40>> \o JoinTypes(Kinds(f.inputs)) \o <<41>>
    ELSE f.name \o <<40>> \o JoinTypes(Kinds(f.inputs)) \o <<41, 58, 40>>
            \o JoinTypes(Kinds(f.outputs)) \o <<41>>

\* hash_signature: the hash of the text without its spaces
hash_signature(sig) == keccak256(SelectSeq(sig, LAMBDA ch : ch # 32))

\* name_or_signature.find('(')
params_start(text) ==
    IF \E i \in 1..Len(text) : text[i] = 40
    THEN Some((CHOOSE i \in 1..Len(text) : text[i] = 40 /\ \A j \in 1..(i - 1) : text[j] # 40) - 1)
    ELSE None

\* .iter().find(..).cloned().ok_or_else(..)
find_or(list, wanted, message) ==
    IF \E i \in 1..Len(list) : wanted[i]
    THEN Ok(list[CHOOSE i \in 1..Len(list) : wanted[i] /\ \A j \in 1..(i - 1) : ~wanted[j]])
    ELSE Err(message)

\* match list.len() { 0 => unreachable!(), 1 => Ok(list[0].clone()), _ => Err(..) }
only_one(list) ==
    IF ~IsOk(list) THEN list
    ELSE IF Len(list.Ok) = 0 THEN Panic("internal error: entered unreachable code")
    ELSE IF Len(list.Ok) = 1 THEN Ok(list.Ok[1])
    ELSE Err("More than one function found for name")

function_of_signature(list, text) ==
    IF ~IsOk(list) THEN list
    ELSE find_or(list.Ok,
                 [i \in 1..Len(list.Ok) |-> function_signature(list.Ok[i]) = text],
                 "invalid function signature")

event_of_signature(list, sig) ==
    IF ~IsOk(list) THEN list
    ELSE find_or(list.Ok, [i \in 1..Len(list.Ok) |-> signature(list.Ok[i]) = sig],
                 "Invalid signature")

function_in(c, text, start) ==
    IF start = None THEN only_one(functions_by_name(c, text))
    ELSE function_of_signature(functions_by_name(c, SubSeq(text, 1, start.Some)), text)

event_in(c, text, start) ==
    IF start = None THEN only_one(events_by_name(c, text))
    ELSE event_of_signature(events_by_name(c, SubSeq(text, 1, start.Some)),
                            hash_signature(text))

\* load_function, the file opened and read
load_function(loaded, name_or_signature) ==
    IF ~IsOk(loaded) THEN loaded
    ELSE function_in(loaded.Ok, name_or_signature, params_start(name_or_signature))

\* load_event, the file opened and read
load_event(loaded, name_or_signature) ==
    IF ~IsOk(loaded) THEN loaded
    ELSE event_in(loaded.Ok, name_or_signature, params_start(name_or_signature))

\* the Contract of a successful load
Loaded(loaded) == IF IsOk(loaded) THEN loaded.Ok ELSE None

InitCli ==
    /\ build \in {[bits |-> 64, checks |-> FALSE]}
    /\ types = <<>>
    /\ tokens = <<>>
    /\ data \in JsonArrays(MaxOperations)
    /\ function = None
    /\ other = None
    /\ contract = None
    /\ event = None
    /\ log = None
    /\ raw = None
    /\ result = None
    /\ pc = "file"

LoadFunction ==
    /\ pc = "file"
    /\ \E name \in CliNames :
        /\ other' = [kind |-> "function", name |-> name]
        /\ contract' = Loaded(deserialize(build, data))
        /\ result' = load_function(deserialize(build, data), name)
    /\ pc' = "picked"
    /\ UNCHANGED <<build, types, tokens, data, function, event, log, raw>>

LoadEvent ==
    /\ pc = "file"
    /\ \E name \in CliNames :
        /\ other' = [kind |-> "event", name |-> name]
        /\ contract' = Loaded(deserialize(build, data))
        /\ result' = load_event(deserialize(build, data), name)
    /\ pc' = "picked"
    /\ UNCHANGED <<build, types, tokens, data, function, event, log, raw>>

NextCli == LoadFunction \/ LoadEvent

SpecCli == InitCli /\ [][NextCli]_vars

\* every key of the map keeps a list that is not empty and whose entries all
\* carry the key as their name
KeyedByName(map) ==
    \A key \in DOMAIN map :
        /\ map[key] # <<>>
        /\ \A i \in 1..Len(map[key]) : map[key][i].name = key

\* C30: in a Contract produced by load every key of functions, events and
\* errors maps to a non-empty list whose entries all have the key as their
\* name; functions_by_name and events_by_name never return Ok with an empty
\* list on it, and load_function and load_event never reach their
\* unreachable arm.
LoadedMapsAreKeyedByName ==
    (pc = "picked" /\ contract # None) =>
        /\ KeyedByName(contract.functions)
        /\ KeyedByName(contract.events)
        /\ KeyedByName(contract.errors)
        /\ \A name \in CliNames \cup JsonNames :
              /\ functions_by_name(contract, name) # Ok(<<>>)
              /\ events_by_name(contract, name) # Ok(<<>>)
        /\ ~IsPanic(result)

\* two functions written foo and foo() loaded under the one key foo, and the
\* name foo refused as ambiguous
TwoUnderOneKeyPicked ==
    /\ pc = "picked"
    /\ other = [kind |-> "function", name |-> Foo]
    /\ contract # None
    /\ DOMAIN contract.functions = {Foo}
    /\ Len(contract.functions[Foo]) = 2
    /\ DOMAIN contract.events = {<<>>}
    /\ result = Err("More than one function found for name")

====
